---- MODULE Spec2Model ----
(***************************************************************************)
(* A model of simple_orm: the drift-protected file writer and its          *)
(* rendering (file_writer.py, class_writer.py), the entities hash          *)
(* (db_context.py), schema synchronisation with its metadata store         *)
(* (db_context.py, entity.py, schema_metadata.py), scoped connections,     *)
(* entity instances and their rows, and the metadata reads.                *)
(*                                                                         *)
(* Each part has its own specification, which holds the variables it does  *)
(* not use at their initial values.                                        *)
(***************************************************************************)
EXTENDS Integers, Sequences, FiniteSets, TLC

VARIABLES
    \* ---- file writer ----
    disk,        \* output path -> <<>> (no file) or <<content>>
    sidecar,     \* sidecar file name -> what .simple_orm/<name>.meta.json holds
    edited,      \* output path -> a user edit happened since its last generation
    generated,   \* output path -> write_file has written it at least once
    fwLast,      \* the last file-writer step: its inputs, the state before, the outcome
    \* ---- entities hash ----
    hbase,       \* the registry of the first process run (a sequence of entity classes)
    hreg,        \* the registry after the declarations were edited
    hsteps,      \* number of edits made to the declarations
    hop,         \* the kind of the last edit
    \* ---- schema synchronisation ----
    prog,        \* the class statements of the running process
    registry,    \* EntityMeta.registry: the entity classes, in declaration order
    ctx,         \* the db_context: "none", "failed" (__init__ raised), "base" (a
                 \* db_context as it is) or "subclass" (seed_data overridden)
    pc,          \* where sync_schema stands: "idle", "ddl", "meta", "version", "seed"
    idx,         \* the position in the registry of the entity being synced
    tables,      \* the application tables of the database file, as created
    metaExists,  \* the two metadata tables exist
    metaRows,    \* the rows of _simple_orm_table_mappings, by id
    metaNextId,  \* the next AUTOINCREMENT id of _simple_orm_table_mappings
    versionRows, \* the rows of _simple_orm_schema_version, by version
    syncs,       \* number of sync_schema calls made
    syncsThrough,\* number of sync_schema calls whose table and metadata phase succeeded
    prev,        \* what the preceding sync_schema call left, if it got through
    lastSync,    \* how the last sync_schema call ended
    \* ---- scoped connections ----
    conns,       \* the connections get_connection has opened, in order of opening
    scopes,      \* the connections whose scoped block is running, innermost last
    opOutcome,   \* per operation that used get_connection, in order: "running",
                 \* "returned" or "raised"
    \* ---- entity instances and their rows ----
    objs,        \* the entity instances of the process, in order of construction
    tableRows,   \* the committed rows of the application tables
    rowSeq,      \* table name -> the highest rowid the table has given out
    uuids,       \* number of identifiers uuid.uuid4 has produced
    lastOp,      \* the last operation on instances: its inputs, the I/O it did
                 \* and how it ended
    \* ---- relationship accessors ----
    accessors,   \* the Relationship and SingleRelationship objects bound to
                 \* class attributes by ForeignKey.resolve
    resolveLog,  \* per context constructed in the process, in order: the
                 \* ForeignKey.resolve calls it made and how each ended
    \* ---- metadata reads ----
    lastRead,    \* the last read of the metadata tables: what the database
                 \* held, and what the read returned, raised and printed
    \* ---- rendering ----
    fw,          \* a FileWriter object: its header comments, imports and classes
    render       \* per write_file call on it, in order: the lines built, the
                 \* text written and the structural map saved

fwVars == <<disk, sidecar, edited, generated, fwLast>>
hashVars == <<hbase, hreg, hsteps, hop>>
syncVars == <<prog, registry, ctx, pc, idx, tables, metaExists, metaRows, metaNextId,
              versionRows, syncs, syncsThrough, prev, lastSync>>

connVars == <<conns, scopes, opOutcome>>
rowVars == <<objs, tableRows, rowSeq, uuids, lastOp>>
classVars == <<accessors, resolveLog>>
readVars == <<lastRead>>
renderVars == <<fw, render>>

vars == <<disk, sidecar, edited, generated, fwLast, hbase, hreg, hsteps, hop,
          prog, registry, ctx, pc, idx, tables, metaExists, metaRows, metaNextId,
          versionRows, syncs, syncsThrough, prev, lastSync, connVars, rowVars, classVars, readVars, renderVars>>

(***************************************************************************)
(* Bounds.                                                                 *)
(***************************************************************************)
\* Number of distinct rendered texts a FileWriter (or a user) can produce.
NContents == 2
\* Number of edits made to the entity declarations between two hash computations.
MaxMutations == 2
\* Number of sync_schema calls made on one database file.
MaxSyncs == 2
\* Number of connections opened in all.
MaxConnections == 3
\* Number of rows inserted into the application tables in all.
MaxRows == 2
\* Number of contexts a process constructs.
MaxContexts == 2

(***************************************************************************)
(*                              FILE WRITER                                *)
(***************************************************************************)

\* A rendered text is one of 1..NContents.
Contents == 1 .. NContents

\* Output paths, as character sequences.
OutputPaths == { <<"a", "/", "b">>, <<"a", "_", "b">> , <<"c">> }

\* FileWriter._get_metadata_path: '/', '\' and ':' become '_'.
SafeName(p) ==
    [i \in DOMAIN p |-> IF p[i] \in {"/", "\\", ":"} THEN "_" ELSE p[i]]

SidecarNames == { SafeName(p) : p \in OutputPaths }

\* FileWriter._calculate_content_hash: SHA-256 of the text, modelled as an
\* injective scramble of the content (no collisions inside the bounds).
ContentHash(c) == (c * 167 + 13) % 251

\* A byte string no rendered text hashes to (a stored "sha256" that is stale
\* or was typed in by hand).
ForeignHash == 0

\* What a sidecar file can hold.
\*   missing     no file
\*   unparsable  json.load raises (not JSON, not UTF-8, unreadable)
\*   falsy       JSON that Python treats as false: {} [] 0 "" null
\*   nondict     other JSON that is no object: [1], "abc", 5
\*   dict        a JSON object; sha256 is <<>> (absent, null or "") or <<h>>
SidecarRecord(kind, sha) == [kind |-> kind, sha256 |-> sha]
NoSidecar == SidecarRecord("missing", <<>>)
StoredHashes == { ContentHash(c) : c \in Contents } \cup { ForeignHash }
SidecarStates ==
    { SidecarRecord(k, <<>>) : k \in {"missing", "unparsable", "falsy", "nondict", "dict"} }
    \cup { SidecarRecord("dict", <<h>>) : h \in StoredHashes }

\* FileWriter._load_metadata: None ("none"), the parsed value, never raises.
LoadMetadata(rec) ==
    IF rec.kind \in {"missing", "unparsable"} THEN "none"
    ELSE rec.kind

\* FileWriter._has_user_modifications on an existing file with content c:
\* "yes", "no", or "raise" (metadata.get on a value that has no get).
HasUserModificationsNever(rec, c) == "no"
HasUserModifications(rec, c) ==
    LET metadata == LoadMetadata(rec) IN
    IF metadata \in {"none", "falsy"} THEN "no"
    ELSE IF metadata = "nondict" THEN "raise"
    ELSE IF rec.sha256 = <<>> THEN "no"
    ELSE IF ContentHash(c) # rec.sha256[1] THEN "yes" ELSE "no"

\* FileWriter._save_metadata: the record written after a generation.
SaveMetadata(old, content) == SidecarRecord("dict", <<ContentHash(content)>>)

NoStep ==
    [op |-> "none", path |-> <<>>, content |-> 0, force |-> FALSE,
     outcome |-> "none", preDisk |-> <<>>, preRec |-> NoSidecar]

FWStart ==
    /\ disk = [p \in OutputPaths |-> <<>>]
    /\ sidecar = [k \in SidecarNames |-> NoSidecar]
    /\ edited = [p \in OutputPaths |-> FALSE]
    /\ generated = [p \in OutputPaths |-> FALSE]
    /\ fwLast = NoStep

\* No entity is declared: the hash part is not in use.
HashIdle ==
    /\ hbase = <<>>
    /\ hreg = <<>>
    /\ hsteps = 0
    /\ hop = "none"

\* No process runs and the database file is empty: the sync part is not in use.
NoSnapshot == [valid |-> FALSE, registry |-> <<>>, tables |-> {}, meta |-> <<>>, maxId |-> 0]

FreshDatabase ==
    /\ tables = {}
    /\ metaExists = FALSE
    /\ metaRows = <<>>
    /\ metaNextId = 1
    /\ versionRows = <<>>
    /\ syncs = 0
    /\ syncsThrough = 0
    /\ prev = NoSnapshot
    /\ lastSync = "none"

SyncIdle ==
    /\ prog = <<>>
    /\ registry = <<>>
    /\ ctx = "none"
    /\ pc = "idle"
    /\ idx = 0
    /\ FreshDatabase

\* No operation has opened a connection.
ConnIdle ==
    /\ conns = <<>>
    /\ scopes = <<>>
    /\ opOutcome = <<>>

\* No operation on instances yet.
NoOp ==
    [op |-> "none", args |-> <<>>, outcome |-> "none", connections |-> 0,
     statements |-> <<>>, failed |-> FALSE, result |-> <<>>]

\* The application tables are empty and nothing has been done yet.
NoRows ==
    /\ tableRows = {}
    /\ rowSeq = <<>>
    /\ uuids = 0
    /\ lastOp = NoOp

RowsIdle == objs = <<>> /\ NoRows

\* No context has been constructed: no foreign key has been resolved.
ClassesIdle ==
    /\ accessors = {}
    /\ resolveLog = <<>>

\* The metadata tables have not been read.
NoRead ==
    [op |-> "none", exists |-> FALSE, rows |-> 0, outcome |-> "none", printed |-> "",
     result |-> <<>>]
ReadIdle == lastRead = NoRead

\* FileWriter.__init__: no header comment, no import, no class; write_file
\* has not been called.
NewFileWriter == [header_comments |-> <<>>, imports |-> <<>>, classes |-> <<>>]
RenderIdle == fw = NewFileWriter /\ render = <<>>

\* The parts that keep no state between operations of the other parts.
ExtIdle == ConnIdle /\ RowsIdle /\ ClassesIdle /\ ReadIdle /\ RenderIdle

FWInit == FWStart /\ HashIdle /\ SyncIdle /\ ExtIdle

notFW == <<hashVars, syncVars, connVars, rowVars, classVars, readVars, renderVars>>
notHash == <<fwVars, syncVars, connVars, rowVars, classVars, readVars, renderVars>>
notSync == <<fwVars, hashVars, connVars, rowVars, classVars, readVars, renderVars>>
notConn == <<fwVars, hashVars, syncVars, rowVars, classVars, readVars, renderVars>>
notRows == <<fwVars, hashVars, syncVars, connVars, classVars, readVars, renderVars>>
notProcess == <<fwVars, hashVars, connVars, rowVars, readVars, renderVars>>
notReads == <<fwVars, hashVars, syncVars, connVars, rowVars, classVars, renderVars>>
notGenerator == <<hashVars, syncVars, connVars, rowVars, classVars, renderVars>>
notRender == <<fwVars, hashVars, syncVars, connVars, rowVars, classVars, readVars>>

\* FileWriter.write_file(force) of a writer whose rendering is c, for path p.
WriteOutcome(p, c, force) ==
    IF disk[p] # <<>> /\ ~force
    THEN LET m == HasUserModifications(sidecar[SafeName(p)], disk[p][1]) IN
         IF m = "yes" THEN "skipped" ELSE IF m = "raise" THEN "raised" ELSE "written"
    ELSE "written"

WriteFile(p, c, force) ==
    LET k == SafeName(p)
        out == WriteOutcome(p, c, force)
    IN  /\ fwLast' = [op |-> "write", path |-> p, content |-> c, force |-> force,
                      outcome |-> out, preDisk |-> disk[p], preRec |-> sidecar[k]]
        /\ IF out = "written"
           THEN /\ disk' = [disk EXCEPT ![p] = <<c>>]
                /\ sidecar' = [sidecar EXCEPT ![k] = SaveMetadata(sidecar[k], c)]
           ELSE UNCHANGED <<disk, sidecar>>

\* The user changes the text of an existing destination file.
UserEdit(p, c) ==
    /\ disk[p] # <<>>
    /\ disk[p] # <<c>>
    /\ disk' = [disk EXCEPT ![p] = <<c>>]
    /\ fwLast' = [NoStep EXCEPT !.op = "edit", !.path = p, !.content = c]
    /\ UNCHANGED sidecar

\* A file is put at a destination that write_file has not produced.
UserCreate(p, c) ==
    /\ disk[p] = <<>>
    /\ disk' = [disk EXCEPT ![p] = <<c>>]
    /\ fwLast' = [NoStep EXCEPT !.op = "create", !.path = p, !.content = c]
    /\ UNCHANGED sidecar

\* The cache directory is changed from outside: a sidecar file is removed,
\* truncated, or rewritten.
TamperSidecar(k, rec) ==
    /\ sidecar[k] # rec
    /\ sidecar' = [sidecar EXCEPT ![k] = rec]
    /\ fwLast' = [NoStep EXCEPT !.op = "tamper"]
    /\ UNCHANGED disk

\* The history of a destination, kept beside the program's state: whether
\* write_file produced it, and whether the user changed it since.
HistoryOfWrite(p) ==
    IF fwLast'.outcome = "written"
    THEN /\ edited' = [edited EXCEPT ![p] = FALSE]
         /\ generated' = [generated EXCEPT ![p] = TRUE]
    ELSE UNCHANGED <<edited, generated>>

HistoryOfEdit(p) ==
    /\ edited' = [edited EXCEPT ![p] = TRUE]
    /\ UNCHANGED generated

FWWriteStep ==
    \E p \in OutputPaths, c \in Contents, force \in BOOLEAN :
        WriteFile(p, c, force) /\ UNCHANGED <<edited, generated>> /\ UNCHANGED notFW
FWEditStep ==
    \E p \in OutputPaths, c \in Contents : UserEdit(p, c) /\ UNCHANGED <<edited, generated>> /\ UNCHANGED notFW
FWCreateStep ==
    \E p \in OutputPaths, c \in Contents : UserCreate(p, c) /\ UNCHANGED <<edited, generated>> /\ UNCHANGED notFW
FWTamperStep ==
    \E k \in SidecarNames, rec \in SidecarStates :
        TamperSidecar(k, rec) /\ UNCHANGED <<edited, generated>> /\ UNCHANGED notFW

\* write_file calls, user edits, and changes to the cache directory.
FWNext ==
    \/ FWWriteStep
    \/ FWEditStep
    \/ FWCreateStep
    \/ FWTamperStep

SpecFileWriter == FWInit /\ [][FWNext]_vars

\* write_file calls and user edits of the destination only, with the history
\* of each destination.
FWTrackedWriteStep ==
    \E p \in OutputPaths, c \in Contents, force \in BOOLEAN :
        WriteFile(p, c, force) /\ HistoryOfWrite(p) /\ UNCHANGED notFW
FWTrackedEditStep ==
    \E p \in OutputPaths, c \in Contents : UserEdit(p, c) /\ HistoryOfEdit(p) /\ UNCHANGED notFW

FWEditsNext ==
    \/ FWTrackedWriteStep
    \/ FWTrackedEditStep

SpecFileWriterEdits == FWInit /\ [][FWEditsNext]_vars

(***************************************************************************)
(* Claims about the file writer.                                           *)
(***************************************************************************)

\* The last step was write_file on a destination that existed and whose
\* sidecar held a record with a stored hash.
WroteOverRecordedFile ==
    /\ fwLast.op = "write"
    /\ fwLast.preDisk # <<>>
    /\ fwLast.preRec.kind = "dict"
    /\ fwLast.preRec.sha256 # <<>>

StoredHashDiffered == fwLast.preRec.sha256[1] # ContentHash(fwLast.preDisk[1])

DestinationUntouched ==
    /\ disk[fwLast.path] = fwLast.preDisk
    /\ sidecar[SafeName(fwLast.path)] = fwLast.preRec

DestinationRegenerated ==
    /\ disk[fwLast.path] = <<fwLast.content>>
    /\ sidecar[SafeName(fwLast.path)] = SidecarRecord("dict", <<ContentHash(fwLast.content)>>)

\* C1: write_file(force=False) on an existing destination whose on-disk hash
\* differs from the hash stored in its sidecar record changes neither the
\* destination nor the record; when the hashes are equal, or force=True, the
\* destination holds the newly rendered content afterwards and the record
\* holds the hash of that content.
C1_DriftSkipsUnlessForced ==
    WroteOverRecordedFile =>
        IF StoredHashDiffered /\ ~fwLast.force
        THEN DestinationUntouched
        ELSE DestinationRegenerated

C1_Witness_SkippedOnDrift ==
    /\ WroteOverRecordedFile
    /\ StoredHashDiffered
    /\ ~fwLast.force
    /\ fwLast.outcome = "skipped"
    /\ disk[fwLast.path] # <<fwLast.content>>

\* C2: for every destination that has been generated, the hash stored in its
\* sidecar record equals the hash of its on-disk content if and only if no
\* user edit occurred since its last generation.
C2_StoredHashEqualIffUnedited ==
    \A p \in OutputPaths :
        generated[p] =>
            ( sidecar[SafeName(p)] = SidecarRecord("dict", <<ContentHash(disk[p][1])>>)
              <=> ~edited[p] )

\* C3: with a missing, unreadable or malformed sidecar record, or a record
\* without a stored hash, write_file(force=False) on an existing destination
\* does not fail: it overwrites the destination and saves a fresh record.
NoUsableRecord ==
    \/ fwLast.preRec.kind \in {"missing", "unparsable", "falsy", "nondict"}
    \/ fwLast.preRec.kind = "dict" /\ fwLast.preRec.sha256 = <<>>

C3_BadSidecarNeverFatal ==
    ( /\ fwLast.op = "write"
      /\ ~fwLast.force
      /\ fwLast.preDisk # <<>>
      /\ NoUsableRecord )
    => ( fwLast.outcome = "written" /\ DestinationRegenerated )

\* C30: distinct output paths have distinct sidecar records: write_file on
\* one path never changes the record consulted by the drift check of another
\* path, and a non-forced write_file on a destination that was generated and
\* not edited since is never skipped.
C30_DistinctPathsDistinctRecords ==
    [][ fwLast'.op = "write" =>
          /\ \A q \in OutputPaths \ {fwLast'.path} :
                sidecar'[SafeName(q)] = sidecar[SafeName(q)]
          /\ ( /\ ~fwLast'.force
               /\ generated[fwLast'.path]
               /\ ~edited[fwLast'.path] ) => fwLast'.outcome # "skipped"
      ]_vars

(***************************************************************************)
(*                    DESCRIPTORS AND THE RESOLVER                         *)
(***************************************************************************)

\* Field.__init__: a field descriptor.  default is <<>> (None) or <<value>>.
\* The ForeignKey attributes are empty on a plain field.
Field(py_type, primary_key, nullable, default) ==
    [kind |-> "Field", name |-> "", py_type |-> py_type, primary_key |-> primary_key,
     nullable |-> nullable, default |-> default,
     target |-> "", target_column |-> "", back_populates |-> "", foreign_key |-> <<>>,
     target_kind |-> ""]

\* ForeignKey.__init__: Field.__init__ is not called; py_type is not set (""),
\* primary_key is False, default is None, foreign_key is None until resolve.
\* back_populates is "" for None.
ForeignKey(target, back_populates, target_column, nullable) ==
    [kind |-> "ForeignKey", name |-> "", py_type |-> "", primary_key |-> FALSE,
     nullable |-> nullable, default |-> <<>>,
     target |-> target, target_column |-> target_column,
     back_populates |-> back_populates, foreign_key |-> <<>>,
     target_kind |-> "str"]

\* ForeignKey.__init__ with a target that is no string: target_kind is "type"
\* (a class object), "callable" (a function returning the class) or "other"
\* (any other object); target is the name of the class, or the text of the
\* object.
ForeignKeyTo(target_kind, target, back_populates, target_column, nullable) ==
    [ForeignKey(target, back_populates, target_column, nullable)
        EXCEPT !.target_kind = target_kind]

\* A class attribute that is no Field (a method, a constant).
Other == [kind |-> "Other"]

\* One attribute of a class body: its name and the object bound to it.
Attr(name, obj) == [name |-> name, obj |-> obj]

\* A class statement: its name, the name given by @table ("" without the
\* decorator, where _table_name stays None), and the attributes of its own body in order.
ClassDecl(name, table, attrs) == [name |-> name, table |-> table, attrs |-> attrs]

RECURSIVE CollectFields(_), CollectPlainFields(_)
\* EntityMeta.__new__, the loop over attrs: the Field instances of the class
\* body, each given its attribute name, in declaration order.  Attributes of
\* base classes (Entity.id) are not in attrs.
CollectPlainFields(attrs) ==
    IF attrs = <<>> THEN <<>>
    ELSE LET a == Head(attrs) IN
         (IF a.obj.kind = "Field"
          THEN << [a.obj EXCEPT !.name = a.name] >>
          ELSE <<>>) \o CollectPlainFields(Tail(attrs))
CollectFields(attrs) ==
    IF attrs = <<>> THEN <<>>
    ELSE LET a == Head(attrs) IN
         (IF a.obj.kind \in {"Field", "ForeignKey"}
          THEN << [a.obj EXCEPT !.name = a.name] >>
          ELSE <<>>) \o CollectFields(Tail(attrs))

\* EntityMeta.__new__ followed by the @table decorator: the entity class.
\* context tells whether cls._context holds a db_context (it is None, the
\* attribute of Entity, until a context is constructed).
EntityMetaNew(decl) ==
    [name |-> decl.name, table_name |-> decl.table, fields |-> CollectFields(decl.attrs),
     context |-> FALSE]

\* db_context.__init__, the first loop: cls._context = self for every
\* registered class.
BindContext(reg) == [i \in DOMAIN reg |-> [reg[i] EXCEPT !.context = TRUE]]

RECURSIVE Register(_, _)
\* EntityMeta.registry[name] = cls, for each class statement in order: a
\* later class of the same name takes the place of the earlier one.
Register(reg, decls) ==
    IF decls = <<>> THEN reg
    ELSE LET cls == EntityMetaNew(Head(decls))
             at == { i \in DOMAIN reg : reg[i].name = cls.name }
         IN  Register(IF at = {} THEN Append(reg, cls)
                      ELSE [reg EXCEPT ![CHOOSE i \in at : TRUE] = cls],
                      Tail(decls))

\* registry[name]: the position of the entity, 0 when absent (KeyError).
EntityIndex(reg, name) ==
    IF \E i \in DOMAIN reg : reg[i].name = name
    THEN CHOOSE i \in DOMAIN reg : reg[i].name = name
    ELSE 0

\* cls._fields.get(name): the position of the field, 0 when absent.
FieldIndex(cls, name) ==
    IF \E i \in DOMAIN cls.fields : cls.fields[i].name = name
    THEN CHOOSE i \in DOMAIN cls.fields : cls.fields[i].name = name
    ELSE 0

\* ForeignKey.resolve(registry) on field f of entity e: the registry with the
\* field's py_type and foreign_key set, or the error raised.
ResolveSkipsTypePropagation(reg, e, f) ==
    LET fk == reg[e].fields[f]
        t == EntityIndex(reg, fk.target)
    IN  [err |-> "",
         registry |-> [reg EXCEPT ![e].fields[f].py_type = "int",
                          ![e].fields[f].foreign_key =
                              <<reg[t].table_name, fk.target_column>>]]
\* The same with foreign_key assigned before the target column is looked up.
ResolveBindsBeforeLookup(reg, e, f) ==
    LET fk == reg[e].fields[f]
        t == EntityIndex(reg, fk.target)
    IN  IF fk.target_kind \notin {"str", "type", "callable"}
        THEN [err |-> "TypeError", registry |-> reg]
        ELSE IF t = 0
        THEN [err |-> CASE fk.target_kind = "str" -> "KeyError"
                        [] fk.target_kind = "type" -> "AttributeError"
                        [] OTHER -> "NameError",
              registry |-> reg]
        ELSE LET c == FieldIndex(reg[t], fk.target_column)
                 bound == [reg EXCEPT ![e].fields[f].foreign_key =
                                          <<reg[t].table_name, fk.target_column>>]
             IN
             IF c = 0 THEN [err |-> "ValueError", registry |-> bound]
             ELSE IF reg[t].fields[c].py_type = ""
             THEN [err |-> "AttributeError", registry |-> bound]
             ELSE [err |-> "",
                   registry |-> [bound EXCEPT ![e].fields[f].py_type = reg[t].fields[c].py_type]]
\* The target is looked up by what it is: a string in the registry (KeyError
\* if absent), a class object as it is (AttributeError on _fields if it is no
\* entity class), a callable by calling it (NameError if the name it returns
\* is not bound yet); anything else is a TypeError.
Resolve(reg, e, f) ==
    LET fk == reg[e].fields[f]
        t == EntityIndex(reg, fk.target)
    IN  IF fk.target_kind \notin {"str", "type", "callable"}
        THEN [err |-> "TypeError", registry |-> reg]
        ELSE IF t = 0
        THEN [err |-> CASE fk.target_kind = "str" -> "KeyError"
                        [] fk.target_kind = "type" -> "AttributeError"
                        [] OTHER -> "NameError",
              registry |-> reg]
        ELSE LET c == FieldIndex(reg[t], fk.target_column) IN
             IF c = 0 THEN [err |-> "ValueError", registry |-> reg]
             ELSE IF reg[t].fields[c].py_type = ""
             THEN [err |-> "AttributeError", registry |-> reg]
             ELSE [err |-> "",
                   registry |->
                       [reg EXCEPT
                           ![e].fields[f].py_type = reg[t].fields[c].py_type,
                           ![e].fields[f].foreign_key =
                               <<reg[t].table_name, fk.target_column>>]]

RECURSIVE ResolveFrom(_, _, _)
\* db_context.__init__, the second loop: resolve every ForeignKey of every
\* registered class, in registry order and field order, stopping at the first
\* error.
ResolveFrom(reg, e, f) ==
    IF e > Len(reg) THEN [err |-> "", registry |-> reg]
    ELSE IF f > Len(reg[e].fields) THEN ResolveFrom(reg, e + 1, 1)
    ELSE IF reg[e].fields[f].kind # "ForeignKey" THEN ResolveFrom(reg, e, f + 1)
    ELSE LET r == Resolve(reg, e, f) IN
         IF r.err # "" THEN r ELSE ResolveFrom(r.registry, e, f + 1)

ResolveAll(reg) == ResolveFrom(reg, 1, 1)

RECURSIVE ResolveCalls(_, _, _)
\* The resolve calls the same loop makes, in order: on which field of which
\* entity, the error raised ("" if none), and how many entities the registry
\* held.
ResolveCalls(reg, e, f) ==
    IF e > Len(reg) THEN <<>>
    ELSE IF f > Len(reg[e].fields) THEN ResolveCalls(reg, e + 1, 1)
    ELSE IF reg[e].fields[f].kind # "ForeignKey" THEN ResolveCalls(reg, e, f + 1)
    ELSE LET r == Resolve(reg, e, f)
             call == [entity |-> reg[e].name, field |-> reg[e].fields[f].name, err |-> r.err,
                      registered |-> Len(reg)]
         IN  IF r.err # "" THEN <<call>> ELSE <<call>> \o ResolveCalls(r.registry, e, f + 1)

\* Whether a string ends with _id, for the attribute names of the model.
EndsWithId(name) == name \in {"author_id", "editor_id"}
\* name[:-3]
WithoutIdSuffix(name) == IF name = "author_id" THEN "author" ELSE "editor"

\* An accessor object bound to a class attribute: Relationship(entity, attr)
\* or SingleRelationship(entity, attr).
Accessor(on, name, kind, entity, attr) ==
    [on |-> on, name |-> name, kind |-> kind, entity |-> entity, attr |-> attr]

\* ForeignKey.resolve, its last two statements, for a resolved field f of
\* entity e: the accessors it binds.
Installs(reg, e, f) ==
    LET fk == reg[e].fields[f]
        cls == reg[EntityIndex(reg, fk.target)]
    IN  (IF fk.back_populates # ""
         THEN {Accessor(cls.name, fk.back_populates, "Relationship", reg[e].name, fk.name)}
         ELSE {})
        \cup
        (IF EndsWithId(fk.name)
         THEN {Accessor(reg[e].name, WithoutIdSuffix(fk.name), "SingleRelationship",
                        cls.name, fk.name)}
         ELSE {})

\* setattr(cls, name, obj) for each new accessor: an attribute is bound to
\* one object.
SetAttrs(acc, new) ==
    { a \in acc : ~\E n \in new : n.on = a.on /\ n.name = a.name } \cup new

RECURSIVE AccessorsAfter(_, _, _)
\* The accessors bound after a sequence of resolve calls: those that raised
\* bound none.
AccessorsAfter(acc, reg, calls) ==
    IF calls = <<>> THEN acc
    ELSE LET c == Head(calls)
             e == EntityIndex(reg, c.entity)
         IN  AccessorsAfter(IF c.err = ""
                            THEN SetAttrs(acc, Installs(reg, e, FieldIndex(reg[e], c.field)))
                            ELSE acc,
                            reg, Tail(calls))

(***************************************************************************)
(*                            ENTITIES HASH                                *)
(***************************************************************************)

\* The identifiers of the model in the order Python compares strings (by code
\* point: upper case before lower case, '_' between them).
CodePointOrder ==
    << "Author", "Book", "author_id", "authors", "books", "code", "flag", "id",
       "name", "order", "title", "works" >>

Rank(s) == CHOOSE i \in DOMAIN CodePointOrder : CodePointOrder[i] = s

RECURSIVE Sorted(_)
\* sorted(keys): the names of S in ascending order.
Sorted(S) ==
    IF S = {} THEN <<>>
    ELSE LET m == CHOOSE x \in S : \A y \in S : Rank(x) <= Rank(y)
         IN  <<m>> \o Sorted(S \ {m})

RECURSIVE Join(_, _)
\* sep.join(parts), on token sequences.
Join(parts, sep) ==
    IF parts = <<>> THEN <<>>
    ELSE IF Len(parts) = 1 THEN parts[1]
    ELSE parts[1] \o <<sep>> \o Join(Tail(parts), sep)

\* str(True), str(False).
PyStr(b) == IF b THEN "True" ELSE "False"

\* f"{field_name}:{field.py_type.__name__}:{field.primary_key}:{field.nullable}"
FieldSigWithDefault(fld) ==
    << fld.name, ":", fld.py_type, ":", PyStr(fld.primary_key), ":", PyStr(fld.nullable),
       ":", fld.default >>
FieldSig(fld) ==
    << fld.name, ":", fld.py_type, ":", PyStr(fld.primary_key), ":", PyStr(fld.nullable) >>

\* The field names of a class in declaration order, where the hash sorts them.
FieldKeysUnsorted(cls) == [i \in DOMAIN cls.fields |-> cls.fields[i].name]
FieldKeys(cls) == Sorted({ cls.fields[i].name : i \in DOMAIN cls.fields })

\* f"{cls_name}:{cls._table_name}:{'|'.join(fields)}"
EntitySig(cls) ==
    LET keys == FieldKeys(cls)
        sigs == [i \in DOMAIN keys |-> FieldSig(cls.fields[FieldIndex(cls, keys[i])])]
        table == IF cls.table_name = "" THEN "None" ELSE cls.table_name
    IN  << cls.name, ":", table, ":" >> \o Join(sigs, "|")

\* hashlib.sha256(...).hexdigest(), taken to be free of collisions: the digest
\* stands for the text that was hashed.
Sha256(text) == [sha256 |-> text]

\* db_context._calculate_entities_hash over the (resolved) registry.
CalculateEntitiesHash(reg) ==
    LET names == Sorted({ reg[i].name : i \in DOMAIN reg })
        sigs == [i \in DOMAIN names |-> EntitySig(reg[EntityIndex(reg, names[i])])]
    IN  Sha256(Join(sigs, "\n"))

\* The hash a context built over these declarations computes.
HashOf(reg) == CalculateEntitiesHash(ResolveAll(reg).registry)

(***************************************************************************)
(* The hash under edits of the declarations.  A process run declares the   *)
(* entities of hbase; the declarations are then edited (up to MaxMutations *)
(* times) and a later run declares hreg.  Only declarations over which a   *)
(* context can be constructed (every foreign key resolves) are kept.       *)
(***************************************************************************)

\* The semantic types of field.py: the keys of Field.sql_type's type_map.
PyTypes == {"int", "float", "str", "bool", "datetime", "Decimal"}

\* Default values: None, or a Python value with its type and its text.
PyValue(type, text) == [py |-> type, text |-> text]
Defaults == { <<>>, <<PyValue("bool", "True")>>, <<PyValue("int", "0")>>, <<PyValue("str", "x")>> }

BackPopulateNames == {"", "books", "works"}

\* Author(id pk int, name text not-null) on authors;
\* Book(id pk int, title text, author_id -> Author.id, back_populates books) on books.
AuthorId == Attr("id", Field("int", TRUE, FALSE, <<>>))
AuthorName == Attr("name", Field("str", FALSE, FALSE, <<>>))
BookId == Attr("id", Field("int", TRUE, FALSE, <<>>))
BookTitle == Attr("title", Field("str", FALSE, TRUE, <<>>))
BookAuthorId == Attr("author_id", ForeignKey("Author", "books", "id", TRUE))

AuthorDecl == ClassDecl("Author", "authors", <<AuthorId, AuthorName>>)
BookDecl == ClassDecl("Book", "books", <<BookId, BookTitle, BookAuthorId>>)

\* The same entities with a string key on Author, which Book refers to.
AuthorCode == Attr("code", Field("str", TRUE, FALSE, <<>>))
BookAuthorCode == Attr("author_id", ForeignKey("Author", "", "code", FALSE))
AuthorByCodeDecl ==
    ClassDecl("Author", "authors", <<AuthorCode, Attr("name", Field("str", FALSE, TRUE, <<PyValue("str", "x")>>))>>)
BookByCodeDecl == ClassDecl("Book", "books", <<BookId, BookAuthorCode>>)

HashBases ==
    { Register(<<>>, <<AuthorDecl, BookDecl>>),
      Register(<<>>, <<BookByCodeDecl, AuthorByCodeDecl>>) }

HashInit ==
    /\ hbase \in HashBases
    /\ hreg = hbase
    /\ hsteps = 0
    /\ hop = "none"
    /\ FWStart
    /\ SyncIdle
    /\ ExtIdle

\* One edit of the declarations, giving registry r in the next run.
HashEdit(r, kind) ==
    /\ hsteps < MaxMutations
    /\ r # hreg
    /\ ResolveAll(r).err = ""
    /\ hreg' = r
    /\ hsteps' = hsteps + 1
    /\ hop' = kind
    /\ UNCHANGED hbase
    /\ UNCHANGED notHash

Swap(seq, i) == [seq EXCEPT ![i] = seq[i + 1], ![i + 1] = seq[i]]

FieldSlots == UNION { { <<e, f>> : f \in DOMAIN hreg[e].fields } : e \in DOMAIN hreg }
PlainSlots == { s \in FieldSlots : hreg[s[1]].fields[s[2]].kind = "Field" }
KeySlots == { s \in FieldSlots : hreg[s[1]].fields[s[2]].kind = "ForeignKey" }

\* The class statements are written in another order.
ReorderEntities ==
    \E i \in 1 .. (Len(hreg) - 1) : HashEdit(Swap(hreg, i), "reorder_entities")

\* The fields of one class are written in another order.
ReorderFields ==
    \E e \in DOMAIN hreg : \E i \in 1 .. (Len(hreg[e].fields) - 1) :
        HashEdit([hreg EXCEPT ![e].fields = Swap(@, i)], "reorder_fields")

\* Field(..., primary_key=...) is changed.
SetPrimaryKey ==
    \E s \in PlainSlots :
        HashEdit([hreg EXCEPT ![s[1]].fields[s[2]].primary_key = ~@], "primary_key")

\* nullable=... is changed, on a Field or a ForeignKey.
SetNullable ==
    \E s \in FieldSlots :
        HashEdit([hreg EXCEPT ![s[1]].fields[s[2]].nullable = ~@], "nullable")

\* The type of a Field is changed.
SetPyType ==
    \E s \in PlainSlots, t \in PyTypes :
        HashEdit([hreg EXCEPT ![s[1]].fields[s[2]].py_type = t], "py_type")

\* default=... is changed.
SetDefault ==
    \E s \in PlainSlots, d \in Defaults :
        HashEdit([hreg EXCEPT ![s[1]].fields[s[2]].default = d], "default")

\* The target entity or the target column of a ForeignKey is changed.
SetTarget ==
    \E s \in KeySlots, e \in DOMAIN hreg : \E c \in DOMAIN hreg[e].fields :
        HashEdit([hreg EXCEPT ![s[1]].fields[s[2]].target = hreg[e].name,
                              ![s[1]].fields[s[2]].target_column = hreg[e].fields[c].name],
                 "target")

\* back_populates=... is changed.
SetBackPopulates ==
    \E s \in KeySlots, b \in BackPopulateNames :
        HashEdit([hreg EXCEPT ![s[1]].fields[s[2]].back_populates = b], "back_populates")

HashNext ==
    \/ ReorderEntities
    \/ ReorderFields
    \/ SetPrimaryKey
    \/ SetNullable
    \/ SetPyType
    \/ SetDefault
    \/ SetTarget
    \/ SetBackPopulates

SpecHash == HashInit /\ [][HashNext]_vars

(***************************************************************************)
(* Claims about the entities hash.                                         *)
(***************************************************************************)

Names(reg) == { reg[i].name : i \in DOMAIN reg }
ClassNamed(reg, n) == reg[EntityIndex(reg, n)]
FieldSet(cls) == { cls.fields[i] : i \in DOMAIN cls.fields }
FieldNamed(cls, n) == cls.fields[FieldIndex(cls, n)]
FieldNames(cls) == { cls.fields[i].name : i \in DOMAIN cls.fields }

\* r1 and r2 declare the same classes with the same fields, in any order.
SameUpToOrder(r1, r2) ==
    /\ Names(r1) = Names(r2)
    /\ \A n \in Names(r1) :
          /\ ClassNamed(r1, n).table_name = ClassNamed(r2, n).table_name
          /\ FieldSet(ClassNamed(r1, n)) = FieldSet(ClassNamed(r2, n))

\* Some field that both registries have differs in its primary-key flag, its
\* nullability or its semantic type (for a foreign key, the type it takes
\* from its target).
FlagOrTypeDiffers(r1, r2) ==
    LET a == ResolveAll(r1).registry
        b == ResolveAll(r2).registry
    IN  \E n \in Names(a) \cap Names(b) :
          \E f \in FieldNames(ClassNamed(a, n)) \cap FieldNames(ClassNamed(b, n)) :
             LET x == FieldNamed(ClassNamed(a, n), f)
                 y == FieldNamed(ClassNamed(b, n), f)
             IN  \/ x.primary_key # y.primary_key
                 \/ x.nullable # y.nullable
                 \/ x.py_type # y.py_type

\* C4: the entities hash is the same under any reordering of the entity
\* declarations and of the field declarations within an entity, and differs
\* whenever some field's primary-key flag, nullability or semantic type differs.
C4_HashOrderFreeAndFlagSensitive ==
    /\ SameUpToOrder(hreg, hbase) => HashOf(hreg) = HashOf(hbase)
    /\ FlagOrTypeDiffers(hreg, hbase) => HashOf(hreg) # HashOf(hbase)

C4_Witness_Reordered ==
    /\ SameUpToOrder(hreg, hbase)
    /\ hreg[1].name # hbase[1].name
    /\ \E n \in Names(hreg) : ClassNamed(hreg, n).fields # ClassNamed(hbase, n).fields

\* The declarations with defaults, foreign-key targets and back_populates
\* names blanked.
WithoutDefaultsAndBindings(reg) ==
    [i \in DOMAIN reg |->
        [reg[i] EXCEPT !.fields =
            [k \in DOMAIN reg[i].fields |->
                [reg[i].fields[k] EXCEPT !.default = <<>>, !.target = "",
                     !.target_column = "", !.back_populates = ""]]]]

OnlyDefaultsOrBindingsChanged ==
    /\ hreg # hbase
    /\ WithoutDefaultsAndBindings(hreg) = WithoutDefaultsAndBindings(hbase)

\* C5 as claimed: changing only default values, foreign-key targets (entity
\* or column) or back_populates names leaves the entities hash unchanged.
C5_HashIgnoresDefaultsAndTargets ==
    OnlyDefaultsOrBindingsChanged => HashOf(hreg) = HashOf(hbase)

\* C5 as amended: such a change leaves the hash unchanged provided every
\* foreign key still takes the same type from its target column.
C5_HashIgnoresDefaultsAndSameTypeTargets ==
    (OnlyDefaultsOrBindingsChanged /\ ~FlagOrTypeDiffers(hreg, hbase))
        => HashOf(hreg) = HashOf(hbase)

\* A foreign key points at another column of the same type.
C5_Witness_RetargetedSameType ==
    /\ OnlyDefaultsOrBindingsChanged
    /\ ~FlagOrTypeDiffers(hreg, hbase)
    /\ \E i \in DOMAIN hreg : \E k \in DOMAIN hreg[i].fields :
          /\ hreg[i].fields[k].kind = "ForeignKey"
          /\ << hreg[i].fields[k].target, hreg[i].fields[k].target_column >>
                # << hbase[i].fields[k].target, hbase[i].fields[k].target_column >>

(***************************************************************************)
(*                        SCHEMA SYNCHRONISATION                           *)
(***************************************************************************)

\* Field.sql_type: the SQLite type of a semantic type, TEXT for any other.
SqlType(py_type) ==
    IF py_type \in {"int", "bool"} THEN "INTEGER"
    ELSE IF py_type \in {"float", "Decimal"} THEN "REAL"
    ELSE "TEXT"

\* key_words.KEY_WORDS.
KeyWords == {"order"}

\* str.lower on the identifiers of the model.
Lower(name) ==
    IF name = "Author" THEN "author" ELSE IF name = "Book" THEN "book" ELSE name

\* key_words.get_column_name: a keyword is put in brackets.
GetColumnName(name) == IF Lower(name) \in KeyWords THEN <<"[", name, "]">> ELSE <<name>>

\* Entity.sync_schema, the string col of one field up to the statement
\* fields_sql.append(col): name, type, PRIMARY KEY [AUTOINCREMENT], NOT NULL,
\* and no DEFAULT part (<<>>) yet.
ColumnBeforeDefault(f) ==
    [name |-> GetColumnName(f.name),
     type |-> SqlType(f.py_type),
     primary_key |-> f.primary_key,
     autoincrement |-> f.primary_key /\ f.py_type = "int",
     not_null |-> ~f.nullable,
     default |-> <<>>]

\* The same string after `col += f" DEFAULT {value}"`, which runs for a
\* default that is a bool: DEFAULT 1 or DEFAULT 0.
ColumnWithDefault(f) ==
    IF f.default # <<>> /\ f.default[1].py = "bool"
    THEN [ColumnBeforeDefault(f) EXCEPT
             !.default = <<IF f.default[1].text = "True" THEN 1 ELSE 0>>]
    ELSE ColumnBeforeDefault(f)

\* The column clause of one field in fields_sql: the string appended, which
\* the later `col +=` does not change (it binds col to a new string).
ColumnClause(f) == ColumnBeforeDefault(f)

\* Entity.sync_schema: "FOREIGN KEY (name) REFERENCES table(column)".
ForeignKeyClause(f) ==
    [column |-> f.name, table |-> f.foreign_key[1], references |-> f.foreign_key[2]]

\* f"{cls._table_name}", where None prints as "None".
TableNameSql(cls) == IF cls.table_name = "" THEN "None" ELSE cls.table_name

\* Entity.sync_schema: the CREATE TABLE statement of a class.
CreateTableSql(cls) ==
    LET fks == SelectSeq(cls.fields, LAMBDA f : f.kind = "ForeignKey") IN
    [name |-> TableNameSql(cls),
     columns |-> [i \in DOMAIN cls.fields |-> ColumnClause(cls.fields[i])],
     foreign_keys |-> [i \in DOMAIN fks |-> ForeignKeyClause(fks[i])]]

\* SQLite executing CREATE TABLE IF NOT EXISTS: a statement with no column is
\* a syntax error; an existing table of that name is left as it is.
ExecuteCreateOrReplaceTable(db, stmt) ==
    IF stmt.columns = <<>> THEN [err |-> "OperationalError", tables |-> db]
    ELSE [err |-> "", tables |-> { t \in db : t.name # stmt.name } \cup {stmt}]
ExecuteCreateTable(db, stmt) ==
    IF stmt.columns = <<>> THEN [err |-> "OperationalError", tables |-> db]
    ELSE IF \E t \in db : t.name = stmt.name THEN [err |-> "", tables |-> db]
    ELSE [err |-> "", tables |-> db \cup {stmt}]

\* json.dumps of a default value: the JSON text, as tokens.
JsonDumps(v) ==
    IF v.py = "bool" THEN (IF v.text = "True" THEN <<"true">> ELSE <<"false">>)
    ELSE IF v.py = "str" THEN <<"\"", v.text, "\"">>
    ELSE <<v.text>>

\* SchemaMetadata.record_entity_metadata, the values of one INSERT: the row
\* of a field.  NULL is "" (<<>> for default_value); id is AUTOINCREMENT.
MetadataRow(id, cls, f, timestamp) ==
    [id |-> id,
     table_name |-> cls.table_name,
     column_name |-> f.name,
     python_type |-> f.py_type,
     sql_type |-> SqlType(f.py_type),
     is_primary_key |-> IF f.primary_key THEN 1 ELSE 0,
     is_foreign_key |-> IF f.kind = "ForeignKey" THEN 1 ELSE 0,
     is_nullable |-> IF f.nullable THEN 1 ELSE 0,
     foreign_table |-> IF f.kind = "ForeignKey" /\ f.foreign_key # <<>>
                       THEN f.foreign_key[1] ELSE "",
     foreign_column |-> IF f.kind = "ForeignKey" /\ f.foreign_key # <<>>
                        THEN f.foreign_key[2] ELSE "",
     default_value |-> IF f.default # <<>> THEN JsonDumps(f.default[1]) ELSE <<>>,
     back_populates |-> IF f.kind = "ForeignKey" THEN f.back_populates ELSE "",
     created_at |-> timestamp,
     updated_at |-> timestamp]

\* DELETE FROM _simple_orm_table_mappings WHERE table_name = ?  (with NULL
\* for the parameter the comparison is never true and no row goes).
DeleteOnlyKeptColumns(rows, cls) ==
    SelectSeq(rows, LAMBDA r : ~(r.table_name = cls.table_name
                                 /\ \E i \in DOMAIN cls.fields : cls.fields[i].name = r.column_name))
DeleteEveryRow(rows, cls) == <<>>
DeleteTableRows(rows, cls) ==
    IF cls.table_name = "" THEN rows
    ELSE SelectSeq(rows, LAMBDA r : r.table_name # cls.table_name)

\* The constraints of _simple_orm_table_mappings on a new row: table_name
\* NOT NULL and UNIQUE(table_name, column_name).
ViolatesConstraint(rows, row) ==
    \/ row.table_name = ""
    \/ \E i \in DOMAIN rows :
          rows[i].table_name = row.table_name /\ rows[i].column_name = row.column_name

\* A py_type that is not a class: the string 'str' where the class str was
\* meant.  It has no __name__; sql_type() maps it to TEXT like any other.
NotAType == "'str'"

RECURSIVE InsertFields(_, _, _, _, _)
\* record_entity_metadata, the loop over entity_cls._fields.items() from
\* field k on: field.py_type.__name__ is read, then each row takes the next
\* id; a constraint violation raises.
InsertFields(rows, nextId, cls, k, timestamp) ==
    IF k > Len(cls.fields) THEN [err |-> "", rows |-> rows, nextId |-> nextId]
    ELSE IF cls.fields[k].py_type = NotAType
    THEN [err |-> "AttributeError", rows |-> rows, nextId |-> nextId]
    ELSE LET row == MetadataRow(nextId, cls, cls.fields[k], timestamp) IN
         IF ViolatesConstraint(rows, row)
         THEN [err |-> "IntegrityError", rows |-> rows, nextId |-> nextId]
         ELSE InsertFields(Append(rows, row), nextId + 1, cls, k + 1, timestamp)

\* SchemaMetadata.record_entity_metadata: delete, insert, commit.  When an
\* INSERT raises, get_connection rolls the transaction back and the table
\* is as it was.
RecordEntityMetadataUncontained(rows, nextId, cls, timestamp) ==
    InsertFields(DeleteTableRows(rows, cls), nextId, cls, 1, timestamp)
RecordEntityMetadataResult(rows, nextId, cls, timestamp) ==
    LET r == InsertFields(DeleteTableRows(rows, cls), nextId, cls, 1, timestamp) IN
    IF r.err = "" THEN r ELSE [err |-> r.err, rows |-> rows, nextId |-> nextId]

\* SchemaMetadata.record_schema_version: one INSERT; version is AUTOINCREMENT.
AppendVersionIfChanged(versions, entities_hash, timestamp, entity_count) ==
    IF versions # <<>> /\ versions[Len(versions)].entities_hash = entities_hash
    THEN versions
    ELSE Append(versions, [version |-> Len(versions) + 1, entities_hash |-> entities_hash,
                           applied_at |-> timestamp, entity_count |-> entity_count])
AppendVersion(versions, entities_hash, timestamp, entity_count) ==
    Append(versions, [version |-> Len(versions) + 1, entities_hash |-> entities_hash,
                      applied_at |-> timestamp, entity_count |-> entity_count])

\* get_all_table_metadata, the dictionary built for one row: the flags as
\* booleans, neither id nor timestamps.
ColumnMetaWithId(r) ==
    [id |-> r.id,
     column_name |-> r.column_name, python_type |-> r.python_type,
     sql_type |-> r.sql_type, is_primary_key |-> r.is_primary_key # 0,
     is_foreign_key |-> r.is_foreign_key # 0, is_nullable |-> r.is_nullable # 0,
     foreign_table |-> r.foreign_table, foreign_column |-> r.foreign_column,
     default_value |-> r.default_value, back_populates |-> r.back_populates]
ColumnMeta(r) ==
    [column_name |-> r.column_name, python_type |-> r.python_type,
     sql_type |-> r.sql_type, is_primary_key |-> r.is_primary_key # 0,
     is_foreign_key |-> r.is_foreign_key # 0, is_nullable |-> r.is_nullable # 0,
     foreign_table |-> r.foreign_table, foreign_column |-> r.foreign_column,
     default_value |-> r.default_value, back_populates |-> r.back_populates]

\* The rows of one table, in id order.
RowsOfTable(rows, t) == SelectSeq(rows, LAMBDA r : r.table_name = t)

\* SchemaMetadata.get_all_table_metadata: table name -> the column
\* dictionaries of its rows, ORDER BY id.
GetAllTableMetadata(rows) ==
    [t \in { rows[i].table_name : i \in DOMAIN rows } |->
        LET mine == RowsOfTable(rows, t) IN [i \in DOMAIN mine |-> ColumnMeta(mine[i])]]

(***************************************************************************)
(* Process runs over one database file.  A process declares its entity     *)
(* classes, constructs a context and calls sync_schema; a later process    *)
(* may declare a revision of the classes and sync the same file.           *)
(***************************************************************************)

\* Book with id left to the Entity base class.
BookInheritDecl == ClassDecl("Book", "books", <<BookTitle, BookAuthorId>>)
\* A revision of Book: title is gone, a column named order has come.
BookOrder == Attr("order", Field("int", FALSE, TRUE, <<PyValue("int", "0")>>))
BookRevisedDecl == ClassDecl("Book", "books", <<BookId, BookOrder, BookAuthorId>>)
\* Author with id left to the Entity base class: Book.author_id finds no id.
AuthorInheritDecl == ClassDecl("Author", "authors", <<AuthorName>>)
\* A class without the @table decorator.
BookUndecoratedDecl == ClassDecl("Book", "", <<BookId, BookTitle>>)
\* A second class on the table of Author.
BookOnAuthorsDecl == ClassDecl("Book", "authors", <<BookId, BookTitle>>)
\* A class whose body holds no field.
BookNoFieldDecl == ClassDecl("Book", "books", <<Attr("title", Other)>>)

\* Book with a flag that is True by default.
BookFlag == Attr("flag", Field("bool", FALSE, TRUE, <<PyValue("bool", "True")>>))
BookFlaggedDecl == ClassDecl("Book", "books", <<BookId, BookTitle, BookFlag, BookAuthorId>>)

ScenarioDecls == <<AuthorDecl, BookDecl>>
FlaggedDecls == <<AuthorDecl, BookFlaggedDecl>>
ScenarioInheritDecls == <<AuthorDecl, BookInheritDecl>>
RevisedDecls == <<AuthorDecl, BookRevisedDecl>>
ReorderedDecls == <<BookDecl, AuthorDecl>>
UnresolvableDecls == <<AuthorInheritDecl, BookDecl>>
UndecoratedDecls == <<AuthorDecl, BookUndecoratedDecl>>
NoFieldDecls == <<AuthorDecl, BookNoFieldDecl>>
SharedTableDecls == <<AuthorDecl, BookOnAuthorsDecl>>
\* Book with title = Field("str"): the type given as a string.
BookMistypedDecl ==
    ClassDecl("Book", "books", <<BookId, Attr("title", Field(NotAType, FALSE, TRUE, <<>>))>>)
MistypedDecls == <<AuthorDecl, BookMistypedDecl>>

Programs ==
    { ScenarioDecls, ScenarioInheritDecls, RevisedDecls, ReorderedDecls,
      UnresolvableDecls, UndecoratedDecls, NoFieldDecls, SharedTableDecls,
      FlaggedDecls, MistypedDecls }

SyncInit ==
    /\ prog \in Programs
    /\ registry = Register(<<>>, prog)
    /\ ctx = "none"
    /\ pc = "idle"
    /\ idx = 0
    /\ FreshDatabase
    /\ FWStart
    /\ HashIdle
    /\ ExtIdle

database == <<tables, metaExists, metaRows, metaNextId, versionRows>>

\* A new process imports the module that holds the class statements p.
StartProcess ==
    \E p \in Programs :
        /\ pc = "idle"
        /\ prog' = p
        /\ registry' = Register(<<>>, p)
        /\ ctx' = "none"
        /\ UNCHANGED <<pc, idx, database, syncs, syncsThrough, prev, lastSync>>
        /\ UNCHANGED notSync

\* db_context.__init__: every foreign key of the registry is resolved in
\* order; the first that fails raises, and the keys before it stay resolved.
ConstructContext ==
    \E kind \in {"base", "subclass"} :
        /\ ctx = "none"
        /\ pc = "idle"
        /\ LET r == ResolveAll(BindContext(registry)) IN
              /\ registry' = r.registry
              /\ ctx' = IF r.err = "" THEN kind ELSE "failed"
        /\ UNCHANGED <<prog, pc, idx, database, syncs, syncsThrough, prev, lastSync>>
        /\ UNCHANGED notSync

\* sync_schema raises: the call is over and left no complete sync behind.
SyncRaised(err) ==
    /\ pc' = "idle"
    /\ lastSync' = err
    /\ prev' = NoSnapshot

\* db_context.sync_schema up to the loop: ensure_metadata_tables.
SyncBegin ==
    /\ ctx \in {"base", "subclass"}
    /\ pc = "idle"
    /\ syncs < MaxSyncs
    /\ syncs' = syncs + 1
    /\ metaExists' = TRUE
    /\ idx' = 1
    /\ pc' = IF registry = <<>> THEN "version" ELSE "ddl"
    /\ syncsThrough' = IF registry = <<>> THEN syncsThrough + 1 ELSE syncsThrough
    /\ UNCHANGED <<prog, registry, ctx, tables, metaRows, metaNextId, versionRows,
                   prev, lastSync>>
    /\ UNCHANGED notSync

\* Entity.sync_schema of a class: the statement is built field by field
\* (f.sql_type() reads f.py_type, which a ForeignKey has only once it is
\* resolved), then run on a connection of cls._context.
EntitySyncSchemaResult(db, cls) ==
    IF \E i \in DOMAIN cls.fields :
          cls.fields[i].kind = "ForeignKey" /\ cls.fields[i].py_type = ""
    THEN [err |-> "AttributeError", tables |-> db]
    ELSE IF ~cls.context THEN [err |-> "AttributeError", tables |-> db]
    ELSE ExecuteCreateTable(db, CreateTableSql(cls))

\* The loop body, first half: cls.sync_schema() on its own connection.
EntitySyncSchema ==
    /\ pc = "ddl"
    /\ LET r == EntitySyncSchemaResult(tables, registry[idx]) IN
          IF r.err # ""
          THEN SyncRaised(r.err) /\ UNCHANGED tables
          ELSE tables' = r.tables /\ pc' = "meta" /\ UNCHANGED <<prev, lastSync>>
    /\ UNCHANGED <<prog, registry, ctx, idx, metaExists, metaRows, metaNextId,
                   versionRows, syncs, syncsThrough>>
    /\ UNCHANGED notSync

\* The loop body, second half: SchemaMetadata.record_entity_metadata(conn, cls).
RecordEntityMetadata ==
    /\ pc = "meta"
    /\ LET r == RecordEntityMetadataResult(metaRows, metaNextId, registry[idx], syncs) IN
          IF r.err # ""
          THEN /\ SyncRaised(r.err)
               /\ metaRows' = r.rows
               /\ metaNextId' = r.nextId
               /\ UNCHANGED <<idx, syncsThrough>>
          ELSE /\ metaRows' = r.rows
               /\ metaNextId' = r.nextId
               /\ IF idx < Len(registry)
                  THEN idx' = idx + 1 /\ pc' = "ddl" /\ UNCHANGED syncsThrough
                  ELSE pc' = "version" /\ syncsThrough' = syncsThrough + 1 /\ UNCHANGED idx
               /\ UNCHANGED <<prev, lastSync>>
    /\ UNCHANGED <<prog, registry, ctx, tables, metaExists, versionRows, syncs>>
    /\ UNCHANGED notSync

\* After the loop: the hash is computed and record_schema_version is called.
RecordSchemaVersion ==
    /\ pc = "version"
    /\ versionRows' = AppendVersion(versionRows, CalculateEntitiesHash(registry),
                                    syncs, Len(registry))
    /\ pc' = "seed"
    /\ UNCHANGED <<prog, registry, ctx, idx, tables, metaExists, metaRows, metaNextId,
                   syncs, syncsThrough, prev, lastSync>>
    /\ UNCHANGED notSync

\* What a sync_schema call that got through leaves behind.
Snapshot ==
    [valid |-> TRUE, registry |-> registry, tables |-> tables,
     meta |-> GetAllTableMetadata(metaRows), maxId |-> metaNextId - 1]

\* The connection is closed and seed_data is awaited: db_context.seed_data
\* raises NotImplementedError, an override returns.
SeedData ==
    /\ pc = "seed"
    /\ pc' = "idle"
    /\ lastSync' = IF ctx = "base" THEN "NotImplementedError" ELSE "returned"
    /\ prev' = Snapshot
    /\ UNCHANGED <<prog, registry, ctx, idx, database, syncs, syncsThrough>>
    /\ UNCHANGED notSync

SyncNext ==
    \/ StartProcess
    \/ ConstructContext
    \/ SyncBegin
    \/ EntitySyncSchema
    \/ RecordEntityMetadata
    \/ RecordSchemaVersion
    \/ SeedData

SpecSync == SyncInit /\ [][SyncNext]_vars

(***************************************************************************)
(* Claims about schema synchronisation.                                    *)
(***************************************************************************)

\* C6: every sync_schema call whose table and metadata phase succeeds appends
\* exactly one version row, whatever the hash of the latest row: the version
\* table holds as many rows as there were such syncs (one less while the
\* running call is about to insert its row), with strictly increasing versions.
C6_OneVersionRowPerSync ==
    /\ Len(versionRows) = IF pc = "version" THEN syncsThrough - 1 ELSE syncsThrough
    /\ \A i, j \in DOMAIN versionRows :
          i < j => versionRows[i].version < versionRows[j].version

\* Two consecutive version rows carry the same hash.
C6_Witness_SameHashTwice ==
    /\ Len(versionRows) >= 2
    /\ versionRows[1].entities_hash = versionRows[2].entities_hash
    /\ versionRows[1].version < versionRows[2].version

\* C7: a sync_schema call whose computed entities hash equals the hash of the
\* most recent version row appends no version row.
C7_VersionRowOnlyOnChange ==
    [][ ( /\ pc = "version"
          /\ versionRows # <<>>
          /\ versionRows[Len(versionRows)].entities_hash = CalculateEntitiesHash(registry) )
        => versionRows' = versionRows ]_vars

\* The table names of the registered classes.
RegisteredTables == { registry[e].table_name : e \in DOMAIN registry }

\* The running sync_schema call has done its database work, the call before
\* it got through, and the descriptors are those of that call.
SecondSyncUnchanged ==
    /\ pc = "seed"
    /\ prev.valid
    /\ prev.registry = registry

\* C8: of two consecutive sync_schema calls with no descriptor change between
\* them, the second leaves every application table as it was and replaces the
\* metadata rows of every table by rows of the same content, so that
\* get_all_table_metadata returns what it returned after the first.
C8_SecondSyncIdempotent ==
    SecondSyncUnchanged =>
        /\ tables = prev.tables
        /\ GetAllTableMetadata(metaRows) = prev.meta
        /\ \A i \in DOMAIN metaRows :
              metaRows[i].table_name \in RegisteredTables => metaRows[i].id > prev.maxId

C8_Witness_SyncedTwice ==
    /\ SecondSyncUnchanged
    /\ \E i \in DOMAIN metaRows : metaRows[i].is_foreign_key = 1 /\ metaRows[i].id > prev.maxId
    /\ prev.maxId > 0

\* The position in the registry of the class whose record_entity_metadata
\* call has just committed, 0 if none has.
JustRecorded ==
    IF pc = "ddl" /\ idx > 1 THEN idx - 1
    ELSE IF pc = "version" /\ registry # <<>> THEN Len(registry)
    ELSE 0

\* C9: after record_entity_metadata(descriptor) commits, the rows of the
\* descriptor's table are one per field of the descriptor, in declaration
\* order, and nothing else; and at no time do two metadata rows share
\* (table_name, column_name).
C9_MetadataRowsMatchDescriptor ==
    /\ JustRecorded # 0 =>
          LET cls == registry[JustRecorded]
              mine == RowsOfTable(metaRows, cls.table_name)
          IN  /\ Len(mine) = Len(cls.fields)
              /\ \A i \in DOMAIN mine :
                    ColumnMeta(mine[i]) = ColumnMeta(MetadataRow(0, cls, cls.fields[i], 0))
              /\ \A i, j \in DOMAIN mine : i < j => mine[i].id < mine[j].id
    /\ \A i, j \in DOMAIN metaRows :
          i # j => << metaRows[i].table_name, metaRows[i].column_name >>
                      # << metaRows[j].table_name, metaRows[j].column_name >>

\* The table just recorded had, after the sync before, a column that the
\* descriptor no longer has.
C9_Witness_StaleColumnPruned ==
    /\ JustRecorded # 0
    /\ prev.valid
    /\ LET cls == registry[JustRecorded] IN
          /\ cls.table_name \in DOMAIN prev.meta
          /\ \E k \in DOMAIN prev.meta[cls.table_name] :
                \A i \in DOMAIN cls.fields :
                    cls.fields[i].name # prev.meta[cls.table_name][k].column_name

\* The last sync_schema call got through, in a process that declares p.
SyncedAs(p) ==
    /\ prog = p
    /\ pc = "idle"
    /\ prev.valid
    /\ prev.registry = registry

ColumnNames(rows) == [i \in DOMAIN rows |-> rows[i].column_name]

\* C10 as claimed: with Author(id, name) on authors and Book(id, title,
\* author_id -> Author.id, back_populates books) on books, after sync_schema
\* the metadata store holds 2 rows for books.
C10_BooksHasTwoRows ==
    SyncedAs(ScenarioDecls) => Len(RowsOfTable(metaRows, "books")) = 2

\* C10 as amended: it holds 3 rows for books, one per field that Book
\* declares (id, title, author_id); it holds 2 only where Book leaves id to
\* the Entity base class, whose fields are not collected.
C10_BooksHasOneRowPerDeclaredField ==
    /\ SyncedAs(ScenarioDecls) =>
          /\ Len(RowsOfTable(metaRows, "books")) = 3
          /\ ColumnNames(RowsOfTable(metaRows, "books")) = <<"id", "title", "author_id">>
    /\ SyncedAs(ScenarioInheritDecls) =>
          /\ Len(RowsOfTable(metaRows, "books")) = 2
          /\ ColumnNames(RowsOfTable(metaRows, "books")) = <<"title", "author_id">>

C10_Witness_ScenarioSynced ==
    /\ SyncedAs(ScenarioDecls)
    /\ RowsOfTable(metaRows, "authors") # <<>>
    /\ \E t \in tables : t.name = "books" /\ t.foreign_keys # <<>>

\* Every registered class has its table.
AllTablesExist ==
    \A e \in DOMAIN registry : \E t \in tables : t.name = TableNameSql(registry[e])

\* C11: sync_schema invokes the seed-data hook once, after every table, all
\* metadata and the version row have been written, and the hook does nothing
\* by default: no sync_schema call ends by raising out of the hook.
C11_SeedHookLastAndNoOpByDefault ==
    /\ pc = "seed" =>
          (AllTablesExist /\ metaExists /\ Len(versionRows) = syncsThrough /\ syncsThrough > 0)
    /\ lastSync # "NotImplementedError"

\* The DEFAULT part a column is to have: the literal 1 or 0 for a field whose
\* default is a bool, none for any other field.
BooleanDefault(f) ==
    IF f.default # <<>> /\ f.default[1].py = "bool"
    THEN <<IF f.default[1].text = "True" THEN 1 ELSE 0>>
    ELSE <<>>

\* C19: the CREATE TABLE statement by which Entity.sync_schema creates a
\* table gives every column of a field with a boolean default the part
\* DEFAULT 1 or DEFAULT 0, and no other column a DEFAULT part.
C19_BooleanDefaultsInDdl ==
    [][ pc = "ddl" =>
          \A t \in tables' \ tables :
              \A i \in DOMAIN registry[idx].fields :
                  t.columns[i].default = BooleanDefault(registry[idx].fields[i])
      ]_vars

(***************************************************************************)
(*                         SCOPED CONNECTIONS                              *)
(* db_context.get_connection as its callers use it: an operation opens a   *)
(* connection and runs a block in it; sync_schema runs Entity.sync_schema, *)
(* which opens a connection of its own, inside its block.                  *)
(***************************************************************************)

\* The deepest nesting of scoped blocks: sync_schema around Entity.sync_schema.
MaxNesting == 2

\* aiosqlite.connect returned: the connection, about to run the first PRAGMA.
\* parent is the connection whose block this one was opened in (0: none), op
\* the operation it belongs to, log what was done to it.
NewConnection(parent, op) ==
    [parent |-> parent, op |-> op, phase |-> "pragma1", exc |-> "", log |-> <<"open">>]

Top == conns[scopes[Len(scopes)]]

\* An exception raised at the point where connection i's block stands.
RaiseInto(cs, i, exc) == [cs EXCEPT ![i].phase = "except", ![i].exc = exc]

\* Where a failing PRAGMA leaves the connection: both PRAGMAs are inside the
\* try statement, so control goes to the except clause.
AfterPragmaFailureOutsideTry(c) == [c EXCEPT !.phase = "exited", !.exc = "OperationalError"]
AfterPragmaFailure(c) == [c EXCEPT !.phase = "except", !.exc = "OperationalError"]

\* conn = await aiosqlite.connect(...), by a new operation or inside a
\* running block.  A failing connect opens nothing and raises where it was
\* called.
Connect ==
    \E ok \in BOOLEAN :
        /\ Len(scopes) < MaxNesting
        /\ scopes # <<>> => Top.phase = "body"
        /\ IF ok
           THEN /\ Len(conns) < MaxConnections
                /\ conns' = Append(conns,
                      NewConnection(IF scopes = <<>> THEN 0 ELSE scopes[Len(scopes)],
                                    IF scopes = <<>> THEN Len(opOutcome) + 1 ELSE Top.op))
                /\ scopes' = Append(scopes, Len(conns) + 1)
                /\ opOutcome' = IF scopes = <<>> THEN Append(opOutcome, "running")
                                ELSE opOutcome
           ELSE /\ Len(opOutcome) < MaxConnections
                /\ UNCHANGED scopes
                /\ IF scopes = <<>>
                   THEN opOutcome' = Append(opOutcome, "raised") /\ UNCHANGED conns
                   ELSE /\ conns' = RaiseInto(conns, scopes[Len(scopes)], "OperationalError")
                        /\ UNCHANGED opOutcome
        /\ UNCHANGED notConn

\* The two PRAGMA statements at the head of the try statement.
Pragma ==
    \E ok \in BOOLEAN :
        /\ scopes # <<>>
        /\ Top.phase \in {"pragma1", "pragma2"}
        /\ conns' = [conns EXCEPT ![scopes[Len(scopes)]] =
                        IF ok THEN [@ EXCEPT !.phase = IF @ = "pragma1" THEN "pragma2" ELSE "body",
                                             !.log = Append(@, "pragma")]
                        ELSE AfterPragmaFailure(@)]
        /\ UNCHANGED <<scopes, opOutcome>>
        /\ UNCHANGED notConn

\* The block under `async with` ends: it returns or lets an exception out.
BlockEnds ==
    \E exc \in {"", "Error"} :
        /\ scopes # <<>>
        /\ Top.phase = "body"
        /\ conns' = IF exc = "" THEN [conns EXCEPT ![scopes[Len(scopes)]].phase = "finally"]
                    ELSE RaiseInto(conns, scopes[Len(scopes)], exc)
        /\ UNCHANGED <<scopes, opOutcome>>
        /\ UNCHANGED notConn

\* except: await conn.rollback(); raise
Rollback ==
    /\ scopes # <<>>
    /\ Top.phase = "except"
    /\ conns' = [conns EXCEPT ![scopes[Len(scopes)]] =
                    [@ EXCEPT !.phase = "finally", !.log = Append(@, "rollback")]]
    /\ UNCHANGED <<scopes, opOutcome>>
    /\ UNCHANGED notConn

\* finally: await conn.close().  The scope is left; an exception on its way
\* goes to the enclosing block, or out of the operation.
Close ==
    /\ scopes # <<>>
    /\ Top.phase = "finally"
    /\ LET i == scopes[Len(scopes)]
           closed == [conns EXCEPT ![i] = [@ EXCEPT !.phase = "exited", !.log = Append(@, "close")]]
       IN  /\ conns' = IF conns[i].exc # "" /\ conns[i].parent # 0
                       THEN RaiseInto(closed, conns[i].parent, conns[i].exc)
                       ELSE closed
           /\ opOutcome' = IF conns[i].parent # 0 THEN opOutcome
                           ELSE [opOutcome EXCEPT ![conns[i].op] =
                                    IF conns[i].exc # "" THEN "raised" ELSE "returned"]
    /\ scopes' = SubSeq(scopes, 1, Len(scopes) - 1)
    /\ UNCHANGED notConn

ConnNext ==
    \/ Connect
    \/ Pragma
    \/ BlockEnds
    \/ Rollback
    \/ Close

ConnInit == FWStart /\ HashIdle /\ SyncIdle /\ ExtIdle

SpecConnection == ConnInit /\ [][ConnNext]_vars

Count(log, event) == Cardinality({ k \in DOMAIN log : log[k] = event })

\* C12: every connection opened by get_connection is closed exactly once on
\* every way out of its block, a failing PRAGMA included; when an exception
\* leaves the block, rollback is issued just before the close and the
\* exception reaches the caller; once the operation is over none of its
\* connections is open.
C12_ConnectionClosedOnceOnEveryPath ==
    \A i \in DOMAIN conns :
        LET c == conns[i] IN
        /\ Count(c.log, "close") = IF c.phase = "exited" THEN 1 ELSE 0
        /\ (c.phase = "exited" /\ c.exc # "") =>
              /\ Count(c.log, "rollback") = 1
              /\ SubSeq(c.log, Len(c.log) - 1, Len(c.log)) = <<"rollback", "close">>
              /\ IF c.parent = 0 THEN opOutcome[c.op] = "raised"
                 ELSE conns[c.parent].exc = c.exc /\ conns[c.parent].phase # "body"
        /\ opOutcome[c.op] # "running" => c.phase = "exited"

\* A connection whose PRAGMA failed inside another connection's block has
\* been rolled back and closed, and so has the outer one.
C12_Witness_PragmaFailedNested ==
    \E i \in DOMAIN conns :
        /\ conns[i].parent # 0
        /\ conns[i].phase = "exited"
        /\ Count(conns[i].log, "pragma") < 2
        /\ conns[i].exc # ""
        /\ conns[conns[i].parent].phase = "exited"

(***************************************************************************)
(*                     ENTITY INSTANCES AND THEIR ROWS                     *)
(* A process that has declared Author, Book and Tag, constructed a context *)
(* and synchronised the schema works with instances: insert, update,       *)
(* delete, insert_many, update_many.                                       *)
(***************************************************************************)

\* A Python value: None, or a value of a type; n tells the values of one
\* type apart.  The texts uuid.uuid4 produces are those above UuidBase; the
\* texts below 0 are the decimal numerals of the negative integers
\* (PyText(-1) is "-1"), the text 0 is the empty text, and no other text of
\* the model is a numeral.
PyNone == [py |-> "None", n |-> 0]
PyInt(n) == [py |-> "int", n |-> n]
PyText(n) == [py |-> "str", n |-> n]
UuidBase == 10
Uuid4(k) == PyText(UuidBase + k)

\* An entity whose primary key is a string, a second child of Author.
TagDecl ==
    ClassDecl("Tag", "tags", << Attr("id", Field("str", TRUE, FALSE, <<>>)),
                                Attr("label", Field("str", FALSE, TRUE, <<>>)),
                                Attr("author_id", ForeignKey("Author", "tags", "id", TRUE)) >>)

RowDecls == <<AuthorDecl, BookDecl, TagDecl>>
\* EntityMeta.registry[name], type(self)
EntityClass(name) == ClassNamed(registry, name)

\* Field.default as an instance sees it.
DefaultOf(f) == IF f.default = <<>> THEN PyNone ELSE [py |-> f.default[1].py, n |-> 0]

\* Entity.__init__(**kwargs): no child is pending, and every field takes its
\* keyword or its default.
EntityInit(name, kwargs) ==
    LET cls == EntityClass(name) IN
    [cls |-> name,
     pending |-> <<>>,
     attrs |-> [f \in FieldNames(cls) |->
                   IF f \in DOMAIN kwargs THEN kwargs[f] ELSE DefaultOf(FieldNamed(cls, f))]]

\* The keyword a caller passes for a field: a number or a text.
SampleValue(f) == IF f.py_type = "int" THEN PyInt(1) ELSE PyText(1)

\* The keyword sets a caller passes: none, one for every field that is no
\* primary key, or (where the key is a string the caller may choose) one for
\* every field, the key being some text or the text "-1".
KwargSets(name) ==
    LET cls == EntityClass(name)
        plain == { f \in FieldNames(cls) : ~FieldNamed(cls, f).primary_key }
        keyed == \E f \in FieldNames(cls) \ plain : FieldNamed(cls, f).py_type = "str"
        given == {{}, plain} \cup (IF keyed THEN {FieldNames(cls)} ELSE {})
    IN  { [f \in D |-> SampleValue(FieldNamed(cls, f))] : D \in given }
        \cup (IF keyed
              THEN { [f \in FieldNames(cls) |->
                        IF f \in plain THEN SampleValue(FieldNamed(cls, f)) ELSE PyText(-1)] }
              ELSE {})

\* bool(not v): None, 0 and the empty text are false values.
Not(v) == v.py = "None" \/ v.n = 0

\* Field.python_to_sql on the values of the model: a bool goes as an int.
PythonToSql(v) == IF v.py = "bool" THEN PyInt(v.n) ELSE v

\* The first field with primary_key set, <<>> if there is none.
PkField(cls) ==
    LET pks == SelectSeq(cls.fields, LAMBDA f : f.primary_key) IN
    IF pks = <<>> THEN <<>> ELSE <<pks[1]>>

NextRowid(seq, table) == IF table \in DOMAIN seq THEN seq[table] + 1 ELSE 1

RECURSIVE Inserted(_)
\* The number of rows the tables have been given so far.
Inserted(seq) ==
    IF DOMAIN seq = {} THEN 0
    ELSE LET t == CHOOSE x \in DOMAIN seq : TRUE
         IN  seq[t] + Inserted([x \in DOMAIN seq \ {t} |-> seq[x]])

RowsIn(db, table) == { r \in db : r.table = table }

\* SQLite executing INSERT INTO table (columns) VALUES (...) on a table made
\* by Entity.sync_schema: an INTEGER PRIMARY KEY AUTOINCREMENT column that is
\* left out takes the next rowid, any other takes NULL (the DDL carries no
\* DEFAULT); NOT NULL and PRIMARY KEY are checked.
ExecuteInsert(db, seq, cls, cols) ==
    LET rowid == NextRowid(seq, cls.table_name)
        stored == [f \in FieldNames(cls) |->
                      IF f \in DOMAIN cols THEN cols[f]
                      ELSE IF ColumnClause(FieldNamed(cls, f)).autoincrement THEN PyInt(rowid)
                      ELSE PyNone]
        bad == \E f \in FieldNames(cls) :
                  LET col == ColumnClause(FieldNamed(cls, f)) IN
                  \/ col.not_null /\ stored[f] = PyNone
                  \/ /\ col.primary_key
                     /\ \E r \in RowsIn(db, cls.table_name) : r.cols[f] = stored[f]
    IN  IF bad THEN [err |-> "IntegrityError", rows |-> db, seq |-> seq, lastrowid |-> 0]
        ELSE [err |-> "",
              rows |-> db \cup {[table |-> cls.table_name, rowid |-> rowid, cols |-> stored]},
              seq |-> [t \in DOMAIN seq \cup {cls.table_name} |->
                          IF t = cls.table_name THEN rowid ELSE seq[t]],
              lastrowid |-> rowid]

\* SQLite executing UPDATE table SET ... WHERE id = ?: NULL matches no row;
\* NOT NULL is checked on the rows that match.
ExecuteUpdate(db, cls, sets, id) ==
    LET hit == { r \in RowsIn(db, cls.table_name) : id # PyNone /\ r.cols["id"] = id }
        bad == /\ hit # {}
               /\ \E f \in DOMAIN sets :
                     ColumnClause(FieldNamed(cls, f)).not_null /\ sets[f] = PyNone
    IN  IF bad THEN [err |-> "IntegrityError", rows |-> db]
        ELSE [err |-> "",
              rows |-> (db \ hit) \cup
                  { [r EXCEPT !.cols = [f \in DOMAIN r.cols |->
                                          IF f \in DOMAIN sets THEN sets[f] ELSE r.cols[f]]]
                    : r \in hit }]

\* SQLite executing DELETE FROM table WHERE id = ?.
ExecuteDelete(db, cls, id) ==
    { r \in db : ~(r.table = cls.table_name /\ id # PyNone /\ r.cols["id"] = id) }

\* What an operation on instances leaves in lastOp.
Operation(op, args, outcome, connections, statements, failed, result) ==
    [op |-> op, args |-> args, outcome |-> outcome, connections |-> connections,
     statements |-> statements, failed |-> failed, result |-> result]

\* The instances a process works with: two, each constructed as cls(**kwargs).
InstancePairs ==
    LET made == UNION { { EntityInit(registry[e].name, kw) : kw \in KwargSets(registry[e].name) }
                        : e \in DOMAIN registry }
    IN  { <<a, b>> : a \in made, b \in made }

\* Entity.insert, the loop that builds the statement: the string primary
\* keys that hold None and get str(uuid.uuid4()).
GeneratedKeys(o) ==
    LET cls == EntityClass(o.cls) IN
    { f \in FieldNames(cls) :
        /\ FieldNamed(cls, f).primary_key
        /\ FieldNamed(cls, f).py_type = "str"
        /\ o.attrs[f] = PyNone }

\* The instance as the loop leaves it, uuid4 having been called k times before.
WithGeneratedKeys(o, k) ==
    LET cls == EntityClass(o.cls)
        gen == GeneratedKeys(o)
    IN  [o EXCEPT !.attrs =
            [f \in DOMAIN o.attrs |->
                IF f \in gen
                THEN Uuid4(k + Cardinality({ g \in gen : FieldIndex(cls, g) <= FieldIndex(cls, f) }))
                ELSE o.attrs[f]]]

\* The columns of the INSERT of Entity.insert: every field but an integer
\* primary key, with the converted value of the attribute.
InsertColumns(o) ==
    LET cls == EntityClass(o.cls) IN
    [f \in { g \in FieldNames(cls) :
               ~(FieldNamed(cls, g).primary_key /\ FieldNamed(cls, g).py_type = "int") } |->
        PythonToSql(o.attrs[f])]

\* Whether Entity.insert writes cur.lastrowid to self.id.
TakesRowIdAlways(cls) == TRUE
TakesRowId(cls) == PkField(cls) # <<>> /\ PkField(cls)[1].py_type = "int"

\* Entity.insert() of the i-th instance, no child pending.
Insert ==
    \E i \in DOMAIN objs :
        LET o == WithGeneratedKeys(objs[i], uuids)
            cls == EntityClass(o.cls)
            r == ExecuteInsert(tableRows, rowSeq, cls, InsertColumns(o))
        IN  /\ Inserted(rowSeq) < MaxRows
            /\ uuids' = uuids + Cardinality(GeneratedKeys(objs[i]))
            /\ IF r.err # ""
               THEN /\ objs' = [objs EXCEPT ![i] = o]
                    /\ UNCHANGED <<tableRows, rowSeq>>
               ELSE /\ objs' = [objs EXCEPT ![i] =
                                   IF TakesRowId(cls)
                                   THEN [o EXCEPT !.attrs["id"] = PyInt(r.lastrowid)]
                                   ELSE o]
                    /\ tableRows' = r.rows
                    /\ rowSeq' = r.seq
            /\ lastOp' = Operation("insert", <<i>>, IF r.err # "" THEN r.err ELSE "returned",
                                   1, <<"INSERT">>, r.err # "", <<r.lastrowid>>)
            /\ UNCHANGED notRows

\* The guard of Entity.update, Entity.delete and update_many: `not e.id`.
LacksIdNever(o) == FALSE
LacksId(o) == Not(o.attrs["id"])

\* The SET part of an UPDATE: every field that is no primary key.
UpdateColumns(o) ==
    LET cls == EntityClass(o.cls) IN
    [f \in { g \in FieldNames(cls) : ~FieldNamed(cls, g).primary_key } |->
        PythonToSql(o.attrs[f])]

\* Entity.update() of the i-th instance.
Update ==
    \E i \in DOMAIN objs :
        LET o == objs[i]
            r == ExecuteUpdate(tableRows, EntityClass(o.cls), UpdateColumns(o), o.attrs["id"])
        IN  /\ IF LacksId(o)
               THEN /\ lastOp' = Operation("update", <<i>>, "ValueError", 0, <<>>, FALSE, <<>>)
                    /\ UNCHANGED tableRows
               ELSE /\ lastOp' = Operation("update", <<i>>,
                                           IF r.err # "" THEN r.err ELSE "returned",
                                           1, <<"UPDATE">>, r.err # "", <<>>)
                    /\ tableRows' = r.rows
            /\ UNCHANGED <<objs, rowSeq, uuids>>
            /\ UNCHANGED notRows

\* Entity.delete() of the i-th instance.
Delete ==
    \E i \in DOMAIN objs :
        LET o == objs[i] IN
        /\ IF LacksId(o)
           THEN /\ lastOp' = Operation("delete", <<i>>, "ValueError", 0, <<>>, FALSE, <<>>)
                /\ UNCHANGED <<tableRows, objs>>
           ELSE /\ lastOp' = Operation("delete", <<i>>, "returned", 1, <<"DELETE">>, FALSE, <<>>)
                /\ tableRows' = ExecuteDelete(tableRows, EntityClass(o.cls), o.attrs["id"])
                /\ objs' = [objs EXCEPT ![i].attrs["id"] = PyNone]
        /\ UNCHANGED <<rowSeq, uuids>>
        /\ UNCHANGED notRows

\* The names bound in the module db_context.py when it runs: its imports
\* and its class.  get_column_name and reverse_column_name are imported
\* under `if TYPE_CHECKING:`, which is False when the module runs.
TYPE_CHECKING == FALSE
DbContextGlobals ==
    {"abstractmethod", "os", "hashlib", "aiosqlite", "asynccontextmanager",
     "EntityMeta", "ForeignKey", "SchemaMetadata", "TYPE_CHECKING", "db_context"}
        \cup (IF TYPE_CHECKING THEN {"get_column_name", "reverse_column_name"} ELSE {})

\* The lists a caller passes to insert_many and update_many.
Batches ==
    {<<>>} \cup { <<i>> : i \in DOMAIN objs }
           \cup { <<i, j>> : i, j \in DOMAIN objs }

RECURSIVE TypesOf(_)
\* grouped.setdefault(type(e), []): the types of a list, in order of first
\* occurrence.
TypesOf(items) ==
    IF items = <<>> THEN <<>>
    ELSE LET rest == TypesOf(SubSeq(items, 1, Len(items) - 1))
             t == items[Len(items)].cls
         IN  IF \E k \in DOMAIN rest : rest[k] = t THEN rest ELSE Append(rest, t)

\* The columns of the INSERT of insert_many: every field that is no primary key.
InsertManyColumns(o) == UpdateColumns(o)

RECURSIVE ExecuteMany(_, _, _, _)
\* conn.executemany(sql, rows) for the items of one type: row after row, the
\* first that fails raises.
ExecuteMany(kind, db, seq, items) ==
    IF items = <<>> THEN [err |-> "", rows |-> db, seq |-> seq]
    ELSE LET o == Head(items)
             cls == EntityClass(o.cls)
             r == IF kind = "INSERT"
                  THEN ExecuteInsert(db, seq, cls, InsertManyColumns(o))
                  ELSE [err |-> ExecuteUpdate(db, cls, UpdateColumns(o), o.attrs["id"]).err,
                        rows |-> ExecuteUpdate(db, cls, UpdateColumns(o), o.attrs["id"]).rows,
                        seq |-> seq]
         IN  IF r.err # "" THEN [err |-> r.err, rows |-> db, seq |-> seq]
             ELSE ExecuteMany(kind, r.rows, r.seq, Tail(items))

RECURSIVE ExecuteGroups(_, _, _, _, _, _)
\* The loop over grouped.items() inside the connection block: one
\* executemany per type; done counts the statements issued.
ExecuteGroups(kind, db, seq, types, items, done) ==
    IF types = <<>> THEN [err |-> "", rows |-> db, seq |-> seq, statements |-> done]
    ELSE LET r == ExecuteMany(kind, db, seq, SelectSeq(items, LAMBDA o : o.cls = Head(types)))
         IN  IF r.err # ""
             THEN [err |-> r.err, rows |-> db, seq |-> seq, statements |-> Append(done, kind)]
             ELSE ExecuteGroups(kind, r.rows, r.seq, Tail(types), items, Append(done, kind))

\* db_context.insert_many(entities)
InsertMany ==
    \E batch \in Batches :
        LET items == [k \in DOMAIN batch |-> objs[batch[k]]]
            r == ExecuteGroups("INSERT", tableRows, rowSeq, TypesOf(items), items, <<>>)
        IN  /\ Inserted(rowSeq) + Len(batch) <= MaxRows
            /\ IF batch = <<>>
               THEN /\ lastOp' = Operation("insert_many", batch, "returned", 0, <<>>, FALSE, <<>>)
                    /\ UNCHANGED <<tableRows, rowSeq>>
               ELSE IF "get_column_name" \notin DbContextGlobals
               THEN /\ lastOp' = Operation("insert_many", batch, "NameError", 1, <<>>, FALSE, <<>>)
                    /\ UNCHANGED <<tableRows, rowSeq>>
               ELSE IF r.err # ""
               THEN /\ lastOp' = Operation("insert_many", batch, r.err, 1, r.statements, TRUE, <<>>)
                    /\ UNCHANGED <<tableRows, rowSeq>>
               ELSE /\ lastOp' = Operation("insert_many", batch, "returned", 1, r.statements,
                                           FALSE, <<>>)
                    /\ tableRows' = r.rows
                    /\ rowSeq' = r.seq
            /\ UNCHANGED <<objs, uuids>>
            /\ UNCHANGED notRows

\* db_context.update_many(entities)
UpdateMany ==
    \E batch \in Batches :
        LET items == [k \in DOMAIN batch |-> objs[batch[k]]]
            r == ExecuteGroups("UPDATE", tableRows, rowSeq, TypesOf(items), items, <<>>)
        IN  /\ IF batch = <<>>
               THEN /\ lastOp' = Operation("update_many", batch, "returned", 0, <<>>, FALSE, <<>>)
                    /\ UNCHANGED tableRows
               ELSE IF \E k \in DOMAIN items : LacksId(items[k])
               THEN /\ lastOp' = Operation("update_many", batch, "ValueError", 0, <<>>, FALSE, <<>>)
                    /\ UNCHANGED tableRows
               ELSE IF r.err # ""
               THEN /\ lastOp' = Operation("update_many", batch, r.err, 1, r.statements, TRUE, <<>>)
                    /\ UNCHANGED tableRows
               ELSE /\ lastOp' = Operation("update_many", batch, "returned", 1, r.statements,
                                           FALSE, <<>>)
                    /\ tableRows' = r.rows
            /\ UNCHANGED <<objs, rowSeq, uuids>>
            /\ UNCHANGED notRows

\* Query(entity_cls) after filter or filter_by: the entity, the filtered
\* columns (each compared with = ?) and the parameters.
Query(entity, filters, params) == [entity |-> entity, filters |-> filters, params |-> params]

\* SQLite comparing a stored value with a bound parameter: NULL equals
\* nothing, and an integer parameter compared with a TEXT column is
\* compared as its numeral.
SqlEquals(sql_type, stored, param) ==
    /\ stored # PyNone
    /\ param # PyNone
    /\ IF sql_type = "TEXT" /\ param.py = "int"
       THEN param.n < 0 /\ stored = PyText(param.n)
       ELSE stored = param

\* Query.all: the rows SELECT * FROM table WHERE f1 = ? AND ... returns.
QueryAll(db, q) ==
    LET cls == EntityClass(q.entity) IN
    { r \in RowsIn(db, cls.table_name) :
        \A k \in DOMAIN q.filters :
            SqlEquals(SqlType(FieldNamed(cls, q.filters[k]).py_type), r.cols[q.filters[k]], q.params[k]) }

\* Relationship.__get__(obj, owner) for the accessor a: the query returned.
RelationshipGet(a, o) ==
    IF Not(o.attrs["id"])
    THEN Query(a.entity, <<"id">>, <<PyInt(-1)>>)
    ELSE Query(a.entity, <<a.attr>>, <<o.attrs["id"]>>)

\* Relationship._validate: the entity named is registered and has the field.
Validate(a) ==
    /\ a.entity \in Names(registry)
    /\ a.attr \in FieldNames(EntityClass(a.entity))

\* Reading a back-populate attribute of the i-th instance (a.books).
ReadAccessor ==
    \E i \in DOMAIN objs :
        \E a \in { b \in accessors : b.kind = "Relationship" /\ b.on = objs[i].cls } :
            /\ lastOp' = IF Validate(a)
                         THEN Operation("get", <<i>>, "returned", 0, <<>>, FALSE,
                                        <<RelationshipGet(a, objs[i])>>)
                         ELSE Operation("get", <<i>>, "ValueError", 0, <<>>, FALSE, <<>>)
            /\ UNCHANGED <<objs, tableRows, rowSeq, uuids>>
            /\ UNCHANGED notRows

RowsNext ==
    \/ ReadAccessor
    \/ Insert
    \/ Update
    \/ Delete
    \/ InsertMany
    \/ UpdateMany

\* The process has declared its classes, constructed a context and created
\* the table of each class with cls.sync_schema(); it holds two instances.
RowsInit ==
    /\ prog = RowDecls
    /\ registry = ResolveAll(BindContext(Register(<<>>, RowDecls))).registry
    /\ ctx = "subclass"
    /\ pc = "idle"
    /\ idx = 0
    /\ tables = { CreateTableSql(registry[e]) : e \in DOMAIN registry }
    /\ metaExists = FALSE
    /\ metaRows = <<>>
    /\ metaNextId = 1
    /\ versionRows = <<>>
    /\ syncs = 0
    /\ syncsThrough = 0
    /\ prev = NoSnapshot
    /\ lastSync = "none"
    /\ accessors = AccessorsAfter({}, Register(<<>>, RowDecls),
                                  ResolveCalls(Register(<<>>, RowDecls), 1, 1))
    /\ resolveLog = <<ResolveCalls(Register(<<>>, RowDecls), 1, 1)>>
    /\ objs \in InstancePairs
    /\ NoRows
    /\ ConnIdle
    /\ ReadIdle
    /\ RenderIdle
    /\ FWStart
    /\ HashIdle

SpecRows == RowsInit /\ [][RowsNext]_vars

\* The instances a list of indexes names, in a given list of instances.
Items(instances, batch) == [k \in DOMAIN batch |-> instances[batch[k]]]

\* The rows of an instance's table whose id is the instance's.
RowsOf(db, o) ==
    { r \in RowsIn(db, EntityClass(o.cls).table_name) :
        o.attrs["id"] # PyNone /\ r.cols["id"] = o.attrs["id"] }

\* C13: insert_many and update_many on a non-empty list (for update_many: of
\* instances that all have an id) open one connection and execute one
\* statement per type group; if no statement fails the call returns and the
\* rows of every group are persisted (insert_many: one more row per item;
\* update_many: every row of an item holds the item's values); if one fails
\* the tables are as they were before the call.
C13_BatchIsAllOrNothing ==
    [][ LET batch == lastOp'.args
            items == Items(objs, batch)
        IN  (/\ lastOp'.op \in {"insert_many", "update_many"}
             /\ batch # <<>>
             /\ lastOp'.op = "update_many" => \A k \in DOMAIN items : ~Not(items[k].attrs["id"]))
            => /\ lastOp'.connections = 1
               /\ lastOp'.failed => tableRows' = tableRows
               /\ ~lastOp'.failed =>
                     /\ lastOp'.outcome = "returned"
                     /\ Len(lastOp'.statements) = Len(TypesOf(items))
                     /\ lastOp'.op = "insert_many" =>
                           Cardinality(tableRows') = Cardinality(tableRows) + Len(batch)
                     /\ lastOp'.op = "update_many" =>
                           \A k \in DOMAIN items : \A r \in RowsOf(tableRows', items[k]) :
                               \A f \in DOMAIN UpdateColumns(items[k]) :
                                   r.cols[f] = UpdateColumns(items[k])[f]
      ]_vars

\* C14: update and delete of an instance without an id, and update_many of
\* a list in which some instance has no id, raise ValueError with no
\* connection opened and no statement executed, and leave the tables and
\* every instance as they were.
C14_MissingIdFailsBeforeAnyIO ==
    [][ LET batch == lastOp'.args
            items == Items(objs, batch)
        IN  (/\ lastOp'.op \in {"update", "delete", "update_many"}
             /\ \E k \in DOMAIN items : Not(items[k].attrs["id"]))
            => /\ lastOp'.outcome = "ValueError"
               /\ lastOp'.connections = 0
               /\ lastOp'.statements = <<>>
               /\ tableRows' = tableRows
               /\ rowSeq' = rowSeq
               /\ objs' = objs
      ]_vars

\* update_many of two instances, one with a row of its own and one without
\* an id, has raised ValueError.
C14_Witness_BatchWithUnsavedItem ==
    /\ lastOp.op = "update_many"
    /\ Len(lastOp.args) = 2
    /\ lastOp.outcome = "ValueError"
    /\ \E k \in DOMAIN lastOp.args : RowsOf(tableRows, objs[lastOp.args[k]]) # {}
    /\ \E k \in DOMAIN lastOp.args : Not(objs[lastOp.args[k]].attrs["id"])

\* The ids held by instances or stored in rows.
IdsInUse(instances, db) ==
    { instances[k].attrs["id"] : k \in DOMAIN instances } \cup { r.cols["id"] : r \in db }

\* C15: after a successful insert of an instance whose primary key is a
\* string holding None, the instance's id is a text generated by uuid4, new
\* to the process, stored in the row just inserted, and not the row id the
\* driver reports; an instance gets the driver's row id as its id exactly
\* when its primary key is an integer, and otherwise keeps a supplied id.
C15_StringKeyGeneratedNotRowId ==
    [][ (lastOp'.op = "insert" /\ lastOp'.outcome = "returned") =>
          LET i == lastOp'.args[1]
              before == objs[i]
              after == objs'[i]
              cls == EntityClass(before.cls)
              lastrowid == lastOp'.result[1]
              new == tableRows' \ tableRows
          IN  /\ Cardinality(new) = 1
              /\ \A r \in new : r.rowid = lastrowid /\ r.cols["id"] = after.attrs["id"]
              /\ IF PkField(cls)[1].py_type = "int"
                 THEN after.attrs["id"] = PyInt(lastrowid)
                 ELSE /\ after.attrs["id"] # PyInt(lastrowid)
                      /\ after.attrs["id"].py = "str"
                      /\ IF before.attrs["id"] = PyNone
                         THEN /\ after.attrs["id"].n > UuidBase
                              /\ after.attrs["id"] \notin IdsInUse(objs, tableRows)
                         ELSE after.attrs["id"] = before.attrs["id"]
      ]_vars

\* A Tag constructed without an id has been inserted as the second row of
\* its table and holds a generated id.
C15_Witness_TagInsertedWithoutId ==
    /\ lastOp.op = "insert"
    /\ lastOp.outcome = "returned"
    /\ lastOp.result = <<2>>
    /\ objs[lastOp.args[1]].cls = "Tag"
    /\ objs[lastOp.args[1]].attrs["id"].n > UuidBase

(***************************************************************************)
(*                 CONTEXTS AND FOREIGN-KEY RESOLUTION                     *)
(* A process executes its class statements one after the other and         *)
(* constructs contexts, at any point and more than once.                   *)
(***************************************************************************)

\* Book.author_id given as an object that is no string, class or callable.
BookInvalidTargetDecl ==
    ClassDecl("Book", "books",
              <<BookId, BookTitle, Attr("author_id", ForeignKeyTo("other", "42", "books", "id", TRUE))>>)
\* Book.author_id given as the class Author.
BookTypeTargetDecl ==
    ClassDecl("Book", "books",
              <<BookId, BookTitle, Attr("author_id", ForeignKeyTo("type", "Author", "books", "id", TRUE))>>)
\* Book.author_id given as the type int.
BookIntTargetDecl ==
    ClassDecl("Book", "books",
              <<BookId, BookTitle, Attr("author_id", ForeignKeyTo("type", "int", "", "id", TRUE))>>)
\* Book.author_id given as lambda: Author, Author being declared later.
BookCallableTargetDecl ==
    ClassDecl("Book", "books",
              <<BookId, BookTitle, Attr("author_id", ForeignKeyTo("callable", "Author", "works", "id", TRUE))>>)
\* Book with a second key on a column Author does not have.
BookTwoKeysDecl ==
    ClassDecl("Book", "books",
              <<BookId, BookAuthorId, Attr("editor_id", ForeignKey("Author", "edited", "code", TRUE))>>)

InvalidTargetDecls == <<AuthorDecl, BookInvalidTargetDecl>>
TypeTargetDecls == <<AuthorDecl, BookTypeTargetDecl>>
IntTargetDecls == <<AuthorDecl, BookIntTargetDecl>>
CallableTargetDecls == <<BookCallableTargetDecl, AuthorDecl>>
TwoKeysDecls == <<AuthorDecl, BookTwoKeysDecl>>

ResolvePrograms ==
    { ScenarioDecls, ReorderedDecls, UnresolvableDecls, InvalidTargetDecls,
      TypeTargetDecls, IntTargetDecls, CallableTargetDecls, TwoKeysDecls }

ResolveInit ==
    /\ prog \in ResolvePrograms
    /\ registry = <<>>
    /\ ctx = "none"
    /\ pc = "idle"
    /\ idx = 0
    /\ FreshDatabase
    /\ FWStart
    /\ HashIdle
    /\ ExtIdle

\* The next class statement of the program runs.
DeclareClass ==
    /\ pc = "idle"
    /\ Len(registry) < Len(prog)
    /\ registry' = Register(registry, <<prog[Len(registry) + 1]>>)
    /\ UNCHANGED <<prog, ctx, pc, idx, database, syncs, syncsThrough, prev, lastSync>>
    /\ UNCHANGED classVars
    /\ UNCHANGED notProcess

\* db_context.__init__, whatever the process has done before.
NewContext ==
    \E kind \in {"base", "subclass"} :
        /\ Len(resolveLog) < MaxContexts
        /\ pc = "idle"
        /\ LET r == ResolveAll(BindContext(registry))
               calls == ResolveCalls(registry, 1, 1)
           IN  /\ registry' = r.registry
               /\ accessors' = AccessorsAfter(accessors, registry, calls)
               /\ resolveLog' = Append(resolveLog, calls)
               /\ ctx' = IF r.err = "" THEN kind
                         ELSE IF ctx = "none" THEN "failed" ELSE ctx
        /\ UNCHANGED <<prog, pc, idx, database, syncs, syncsThrough, prev, lastSync>>
        /\ UNCHANGED notProcess

ResolveNext ==
    \/ DeclareClass
    \/ NewContext

SpecResolve == ResolveInit /\ [][ResolveNext]_vars

\* The accessors a foreign key has bound: the Relationship that names it, and
\* the SingleRelationship on its owner that reads it.
BoundBy(acc, entity, field) ==
    { a \in acc : \/ a.kind = "Relationship" /\ a.entity = entity /\ a.attr = field
                  \/ a.kind = "SingleRelationship" /\ a.on = entity /\ a.attr = field }

\* The entity a foreign key's target denotes in a registry, 0 if none.
TargetIndex(reg, fk) ==
    IF fk.target_kind \in {"str", "type", "callable"} THEN EntityIndex(reg, fk.target) ELSE 0

\* C16: a resolve call raises KeyError when the target is a string that is
\* not in the registry, TypeError when the target is no string, class or
\* callable, and ValueError when the target entity has no field named
\* target_column; after any resolve call that raised, the foreign key has no
\* (table, column) pair and no type, and no accessor is bound for it.
C16_FailedResolveLeavesKeyUnresolved ==
    [][ resolveLog' # resolveLog =>
          LET calls == resolveLog'[Len(resolveLog')] IN
          \A k \in DOMAIN calls :
              LET c == calls[k]
                  e == EntityIndex(registry, c.entity)
                  f == FieldIndex(registry[e], c.field)
                  fk == registry[e].fields[f]
                  t == TargetIndex(registry, fk)
              IN  /\ (fk.target_kind = "str" /\ fk.target \notin Names(registry))
                        => c.err = "KeyError"
                  /\ fk.target_kind \notin {"str", "type", "callable"} => c.err = "TypeError"
                  /\ (t # 0 /\ fk.target_column \notin FieldNames(registry[t]))
                        => c.err = "ValueError"
                  /\ c.err # "" =>
                        /\ registry'[e].fields[f].foreign_key = <<>>
                        /\ registry'[e].fields[f].py_type = ""
                        /\ BoundBy(accessors', c.entity, c.field) = {}
                        /\ accessors' = AccessorsAfter(accessors, registry, SubSeq(calls, 1, k - 1))
      ]_vars

\* A context was constructed whose first resolve call bound its accessors
\* and whose second raised ValueError.
C16_Witness_SecondKeyUnknownColumn ==
    /\ resolveLog # <<>>
    /\ LET calls == resolveLog[Len(resolveLog)] IN
          /\ Len(calls) = 2
          /\ calls[1].err = ""
          /\ calls[2].err = "ValueError"
          /\ BoundBy(accessors, calls[1].entity, calls[1].field) # {}
          /\ BoundBy(accessors, calls[2].entity, calls[2].field) = {}

\* The resolve calls of the process, context after context.
RECURSIVE AllCalls(_)
AllCalls(log) == IF log = <<>> THEN <<>> ELSE Head(log) \o AllCalls(Tail(log))

\* C17: every foreign key is resolved at most once in a process, and only
\* when every class of the program is registered.
C17_ResolvedOnceAfterAllRegistered ==
    LET calls == AllCalls(resolveLog) IN
    /\ \A i, j \in DOMAIN calls :
          (calls[i].entity = calls[j].entity /\ calls[i].field = calls[j].field) => i = j
    /\ \A i \in DOMAIN calls : calls[i].registered = Len(prog)

\* C18: the query read from a back-populate accessor of an instance without
\* an id matches no row of the database and does not filter on the foreign-key
\* column; that of an instance with an id is the query on the child entity
\* filtered on foreign-key column = id.  Reading opens no connection and does
\* not raise.
C18_UnsavedAccessorMatchesNoRow ==
    lastOp.op = "get" =>
        LET o == objs[lastOp.args[1]]
            q == lastOp.result[1]
        IN  /\ lastOp.outcome = "returned"
            /\ lastOp.connections = 0
            /\ \E a \in accessors :
                  /\ a.kind = "Relationship" /\ a.on = o.cls /\ a.entity = q.entity
                  /\ IF Not(o.attrs["id"])
                     THEN /\ QueryAll(tableRows, q) = {}
                          /\ \A k \in DOMAIN q.filters : q.filters[k] # a.attr
                     ELSE q = Query(a.entity, <<a.attr>>, <<o.attrs["id"]>>)

(***************************************************************************)
(*                           METADATA READS                                *)
(* While a process synchronises a database file, the metadata tables are   *)
(* read: by db_context.get_schema_metadata, and by the reverse generator,  *)
(* which opens the file on a connection of its own.                        *)
(***************************************************************************)

\* A process without entity classes.
EmptyDecls == <<>>
\* A process that declares Author alone.
AuthorOnlyDecls == <<AuthorDecl>>
ReadPrograms == { EmptyDecls, AuthorOnlyDecls, ScenarioDecls, ReorderedDecls }

\* The file the reverse generator is told to write.
GeneratorOutput == <<"c">>

\* SQLite executing the SELECT of get_all_table_metadata: a table that does
\* not exist is an OperationalError (no such table); the same statement where
\* a missing table reads as an empty one.
SelectMetadataLenient(exists, stored) == [err |-> "", meta |-> GetAllTableMetadata(stored)]
SelectMetadata(exists, stored) ==
    IF exists THEN [err |-> "", meta |-> GetAllTableMetadata(stored)]
    ELSE [err |-> "OperationalError", meta |-> <<>>]

\* inflection.camelize(inflection.singularize(table_name)), on the table
\* names of the model.
TableToClassName(table_name) ==
    CASE table_name = "authors" -> "Author"
      [] table_name = "books" -> "Book"
      [] table_name = "tags" -> "Tag"
      [] OTHER -> table_name

\* json.loads of a stored default: the value whose JSON text it is.
JsonLoads(tokens) ==
    IF tokens \in {<<"true">>, <<"false">>}
    THEN PyValue("bool", IF tokens = <<"true">> THEN "True" ELSE "False")
    ELSE IF Len(tokens) = 3 THEN PyValue("str", tokens[2])
    ELSE PyValue("int", tokens[1])

\* _generate_field_definition(col, all_tables): the assignment written for
\* one column, `name = call(positional, key=value, ...)`, with the keywords
\* that are written.
GenerateFieldDefinition(col) ==
    IF col.is_foreign_key
    THEN [name |-> col.column_name, call |-> "ForeignKey",
          positional |-> TableToClassName(col.foreign_table),
          keywords |->
              [k \in { x \in {"back_populates", "target_column", "nullable"} :
                          CASE x = "back_populates" -> col.back_populates # ""
                            [] x = "target_column" ->
                                   col.foreign_column # "" /\ col.foreign_column # "id"
                            [] OTHER -> ~col.is_nullable } |->
                  CASE k = "back_populates" -> <<col.back_populates>>
                    [] k = "target_column" -> <<col.foreign_column>>
                    [] OTHER -> <<"False">>]]
    ELSE [name |-> col.column_name, call |-> "Field",
          positional |-> col.python_type,
          keywords |->
              [k \in { x \in {"primary_key", "nullable", "default"} :
                          CASE x = "primary_key" -> col.is_primary_key
                            [] x = "nullable" -> ~col.is_nullable
                            [] OTHER -> col.default_value # <<>> } |->
                  CASE k = "primary_key" -> <<"True">>
                    [] k = "nullable" -> <<"False">>
                    [] OTHER -> <<JsonLoads(col.default_value)>>]]

RECURSIVE Flatten(_)
\* The items of a sequence of lists, as one list.
Flatten(lists) == IF lists = <<>> THEN <<>> ELSE Head(lists) \o Flatten(Tail(lists))

\* The annotation `name: list[Class]` written into the class of a table for
\* every foreign key of another table that points at it and names a
\* back_populates attribute.
Annotations(meta, table_name) ==
    LET others == Sorted(DOMAIN meta \ {table_name})
        of(t) == SelectSeq(meta[t], LAMBDA c : /\ c.is_foreign_key
                                                /\ c.foreign_table = table_name
                                                /\ c.back_populates # "")
        lines(t) == [i \in DOMAIN of(t) |->
                        [name |-> of(t)[i].back_populates, call |-> "annotation",
                         positional |-> TableToClassName(t), keywords |-> <<>>]]
    IN  Flatten([i \in DOMAIN others |-> lines(others[i])])

\* The import lines of the generated file: three imports and, when some
\* foreign key has a target table, a blank line and an `if TYPE_CHECKING:`
\* block that holds `from __future__ import annotations`.
GeneratedImports(meta) ==
    LET forward_refs ==
            UNION { { TableToClassName(meta[t][i].foreign_table) :
                        i \in { j \in DOMAIN meta[t] : /\ meta[t][j].is_foreign_key
                                                       /\ meta[t][j].foreign_table # "" } }
                    : t \in DOMAIN meta }
    IN  << "from simple_orm import Entity, Field, ForeignKey, table",
           "from datetime import datetime",
           "from typing import TYPE_CHECKING" >>
        \o (IF forward_refs # {}
            THEN << "", "if TYPE_CHECKING:", "    from __future__ import annotations" >>
            ELSE <<>>)

\* generate_entities_from_db, what it hands to the FileWriter: the import
\* lines, and per table in the order of sorted(): the class, its decorator
\* and its properties.
GeneratedModule(meta) ==
    LET names == Sorted(DOMAIN meta) IN
    [imports |-> GeneratedImports(meta),
     classes |-> [i \in DOMAIN names |->
                    [name |-> TableToClassName(names[i]),
                     table |-> names[i],
                     properties |->
                         [k \in DOMAIN meta[names[i]] |->
                             GenerateFieldDefinition(meta[names[i]][k])]
                         \o Annotations(meta, names[i])]]]

\* The type names bound where the generated class bodies run: the builtins
\* and what the import lines bind.
BoundTypeNames == {"int", "float", "str", "bool", "datetime"}

\* Python running one generated property as a class attribute: the
\* attribute bound, or the error.  An annotation binds no attribute.
ExecProperty(d) ==
    IF d.call = "Field"
    THEN IF d.positional \notin BoundTypeNames THEN [err |-> "NameError", attrs |-> <<>>]
         ELSE [err |-> "",
               attrs |-> << Attr(d.name,
                                 Field(d.positional,
                                       "primary_key" \in DOMAIN d.keywords,
                                       "nullable" \notin DOMAIN d.keywords,
                                       IF "default" \in DOMAIN d.keywords
                                       THEN d.keywords["default"] ELSE <<>>)) >>]
    ELSE IF d.call = "ForeignKey"
    THEN [err |-> "",
          attrs |-> << Attr(d.name,
                            ForeignKey(d.positional,
                                       IF "back_populates" \in DOMAIN d.keywords
                                       THEN d.keywords["back_populates"][1] ELSE "",
                                       IF "target_column" \in DOMAIN d.keywords
                                       THEN d.keywords["target_column"][1] ELSE "id",
                                       "nullable" \notin DOMAIN d.keywords)) >>]
    ELSE [err |-> "", attrs |-> <<>>]

RECURSIVE ExecClasses(_)
\* Python running the class statements of the generated file in order.
ExecClasses(classes) ==
    IF classes = <<>> THEN [err |-> "", decls |-> <<>>]
    ELSE LET c == Head(classes)
             props == [k \in DOMAIN c.properties |-> ExecProperty(c.properties[k])]
             rest == ExecClasses(Tail(classes))
         IN  IF \E k \in DOMAIN props : props[k].err # ""
             THEN [err |-> "NameError", decls |-> <<>>]
             ELSE IF rest.err # "" THEN rest
             ELSE [err |-> "",
                   decls |-> << ClassDecl(c.name, c.table,
                                          Flatten([k \in DOMAIN props |-> props[k].attrs])) >>
                             \o rest.decls]

\* Python importing the generated file in a new process: the class
\* statements it runs, or the error.  A `from __future__` import anywhere
\* but at the beginning of the file is a SyntaxError, raised before any
\* statement runs.
ExecModule(mod) ==
    IF \E i \in DOMAIN mod.imports :
          i > 1 /\ mod.imports[i] = "    from __future__ import annotations"
    THEN [err |-> "SyntaxError", decls |-> <<>>]
    ELSE ExecClasses(mod.classes)

\* What a read leaves in lastRead.
Read(op, outcome, printed, result) ==
    [op |-> op, exists |-> metaExists, rows |-> Len(metaRows), outcome |-> outcome,
     printed |-> printed, result |-> result]

ReadsInit ==
    /\ prog \in ReadPrograms
    /\ registry = Register(<<>>, prog)
    /\ ctx = "none"
    /\ pc = "idle"
    /\ idx = 0
    /\ FreshDatabase
    /\ FWStart
    /\ HashIdle
    /\ ExtIdle

\* db_context.get_schema_metadata()
GetSchemaMetadata ==
    /\ ctx \in {"base", "subclass"}
    /\ LET r == SelectMetadata(metaExists, metaRows) IN
          lastRead' = IF r.err # ""
                      THEN Read("get_schema_metadata", r.err, "", <<>>)
                      ELSE Read("get_schema_metadata", "returned", "", r.meta)
    /\ UNCHANGED notReads

\* generate_entities_from_db(db_path, GeneratorOutput, force): the check of
\* sqlite_master, the read, and write_file of the text rendered from the
\* metadata (one of the texts); a read that wrote the file keeps what the
\* file declares.
GenerateEntities ==
    \E force \in BOOLEAN, c \in Contents :
        LET r == SelectMetadata(metaExists, metaRows) IN
        /\ IF ~metaExists
           THEN /\ lastRead' = Read("generate_entities", "returned", "Error: No metadata found", <<>>)
                /\ UNCHANGED fwVars
           ELSE IF r.err # ""
           THEN /\ lastRead' = Read("generate_entities", r.err, "", <<>>)
                /\ UNCHANGED fwVars
           ELSE IF DOMAIN r.meta = {}
           THEN /\ lastRead' = Read("generate_entities", "returned",
                                    "No entity metadata found in database.", <<>>)
                /\ UNCHANGED fwVars
           ELSE /\ WriteFile(GeneratorOutput, c, force)
                /\ lastRead' = Read("generate_entities",
                                    IF fwLast'.outcome = "raised" THEN "AttributeError"
                                    ELSE "returned",
                                    IF fwLast'.outcome = "raised" THEN "" ELSE "Generated",
                                    IF fwLast'.outcome = "written"
                                    THEN <<GeneratedModule(r.meta)>> ELSE <<>>)
                /\ UNCHANGED <<edited, generated>>
        /\ UNCHANGED notGenerator

\* A file is put where the generator is to write.
PutOutputFile ==
    \E c \in Contents :
        /\ UserCreate(GeneratorOutput, c)
        /\ UNCHANGED <<edited, generated>>
        /\ UNCHANGED notFW

ReadsNext ==
    \/ ConstructContext
    \/ SyncBegin
    \/ EntitySyncSchema
    \/ RecordEntityMetadata
    \/ RecordSchemaVersion
    \/ SeedData
    \/ GetSchemaMetadata
    \/ GenerateEntities
    \/ PutOutputFile

SpecReads == ReadsInit /\ [][ReadsNext]_vars

\* What a read made of a database without metadata tables, and of one whose
\* metadata table is empty.
OutcomeOf(r) == <<r.outcome, r.printed, r.result>>

\* C20: get_schema_metadata raises OperationalError where the metadata tables
\* are missing and returns the empty dictionary where they are empty; the
\* reverse generator returns in both cases, printing "Error: No metadata
\* found" in the first and "No entity metadata found in database." in the
\* second; the two outcomes differ for each of the two reads, and a generator
\* run on missing or empty metadata (a step that sets lastRead) leaves the
\* output file and its record as they were.
C20_NoMetadataDistinctFromEmpty ==
    [][ /\ (lastRead'.op = "get_schema_metadata" /\ ~lastRead'.exists)
              => OutcomeOf(lastRead') = <<"OperationalError", "", <<>>>>
        /\ (lastRead'.op = "get_schema_metadata" /\ lastRead'.exists /\ lastRead'.rows = 0)
              => OutcomeOf(lastRead') = <<"returned", "", <<>>>>
        /\ (lastRead'.op = "generate_entities" /\ ~lastRead'.exists)
              => OutcomeOf(lastRead') = <<"returned", "Error: No metadata found", <<>>>>
        /\ (lastRead'.op = "generate_entities" /\ lastRead'.exists /\ lastRead'.rows = 0)
              => OutcomeOf(lastRead') =
                     <<"returned", "No entity metadata found in database.", <<>>>>
        /\ ( /\ lastRead' # lastRead
              /\ lastRead'.op = "generate_entities"
              /\ (~lastRead'.exists \/ lastRead'.rows = 0) )
              => /\ disk' = disk
                 /\ sidecar' = sidecar
      ]_vars

\* The generator has run on a database whose metadata tables exist and are
\* empty, the output file being there already.
C20_Witness_GeneratorOnEmptySchema ==
    /\ lastRead.op = "generate_entities"
    /\ lastRead.exists
    /\ lastRead.rows = 0
    /\ disk[GeneratorOutput] # <<>>

\* The generator has written the file from the metadata a completed
\* sync_schema call of this process left.
GeneratedFromSynced ==
    /\ lastRead.op = "generate_entities"
    /\ lastRead.result # <<>>
    /\ registry # <<>>
    /\ pc = "idle"
    /\ prev.valid
    /\ prev.registry = registry
    /\ lastRead.result[1] = GeneratedModule(GetAllTableMetadata(metaRows))

\* Two resolved registries declare the same tables, each with the same field
\* names in the same order, types, nullability, primary-key flags and
\* foreign-key linkage; the class of a table is named by the convention.
EquivalentDeclarations(declared, rebuilt) ==
    /\ Len(declared) = Len(rebuilt)
    /\ \A e \in DOMAIN declared :
          \E g \in DOMAIN rebuilt :
              /\ rebuilt[g].table_name = declared[e].table_name
              /\ rebuilt[g].name = TableToClassName(declared[e].table_name)
              /\ DOMAIN rebuilt[g].fields = DOMAIN declared[e].fields
              /\ \A k \in DOMAIN declared[e].fields :
                    LET x == declared[e].fields[k]
                        y == rebuilt[g].fields[k]
                    IN  /\ y.name = x.name
                        /\ y.kind = x.kind
                        /\ y.py_type = x.py_type
                        /\ y.nullable = x.nullable
                        /\ y.primary_key = x.primary_key
                        /\ y.foreign_key = x.foreign_key
                        /\ y.target_column = x.target_column
                        /\ y.back_populates = x.back_populates

\* C21: syncing the declared entities and then running reverse generation
\* from the persisted metadata yields a file that declares entities whose
\* field names, types, nullability, primary-key flags and foreign-key linkage
\* (target, target column, back_populates) are those of the declared ones,
\* up to the naming of classes after their tables.
C21_RoundTripReconstructsEntities ==
    GeneratedFromSynced =>
        LET m == ExecModule(lastRead.result[1]) IN
        /\ m.err = ""
        /\ EquivalentDeclarations(registry, ResolveAll(Register(<<>>, m.decls)).registry)

(***************************************************************************)
(*                 SYNCHRONISATION OF A GROWING REGISTRY                   *)
(* A process executes its class statements one after the other, constructs *)
(* contexts and calls sync_schema, in any order: a class may be registered  *)
(* after the context that synchronises it was constructed.                 *)
(***************************************************************************)

LatePrograms == { AuthorOnlyDecls, ScenarioDecls, ReorderedDecls, TwoKeysDecls }

LateInit ==
    /\ prog \in LatePrograms
    /\ registry = <<>>
    /\ ctx = "none"
    /\ pc = "idle"
    /\ idx = 0
    /\ FreshDatabase
    /\ FWStart
    /\ HashIdle
    /\ ExtIdle

LateNext ==
    \/ DeclareClass
    \/ NewContext
    \/ SyncBegin
    \/ EntitySyncSchema
    \/ RecordEntityMetadata
    \/ RecordSchemaVersion
    \/ SeedData

SpecLateClasses == LateInit /\ [][LateNext]_vars

\* Every foreign key of the classes is resolved.
AllKeysResolved(classes) ==
    \A e \in DOMAIN classes : \A f \in DOMAIN classes[e].fields :
        classes[e].fields[f].kind = "ForeignKey" => classes[e].fields[f].foreign_key # <<>>

\* The metadata rows of a class's table are those of the running sync, one
\* per field.
RecordedInThisSync(rows, cls, call) ==
    LET mine == RowsOfTable(rows, cls.table_name) IN
    /\ Len(mine) = Len(cls.fields)
    /\ \A i \in DOMAIN mine : mine[i].created_at = call

\* C22: in every sync_schema call, every foreign key in the registry is
\* resolved before any CREATE TABLE is executed; the CREATE TABLE of an
\* entity is executed and committed before the metadata rows of that entity
\* are replaced; the version row is written only after the metadata of every
\* registered entity has been recorded; and no table is created and no
\* metadata recorded for an entity that has an unresolved foreign key.
C22_ResolveThenDdlThenMetadataThenVersion ==
    [][ /\ (pc = "ddl" /\ pc' = "meta") => AllKeysResolved(registry)
        /\ metaRows' # metaRows =>
              /\ pc = "meta"
              /\ \E t \in tables : t.name = TableNameSql(registry[idx])
        /\ versionRows' # versionRows =>
              \A e \in DOMAIN registry : RecordedInThisSync(metaRows, registry[e], syncs)
        /\ (tables' # tables \/ metaRows' # metaRows) =>
              AllKeysResolved(<<registry[idx]>>)
      ]_vars

\* ---- a sync_schema call that fails at an entity ----

\* The call fails at the entity it is at: its CREATE TABLE or its metadata
\* write raises.
SyncFailsAtEntity == pc \in {"ddl", "meta"} /\ pc' = "idle"

\* The metadata rows of table t are those the sync before left: when that
\* sync got through, their ids are its ids and get_all_table_metadata
\* returns for t what it returned then; none is of the running call.
AsBeforeTheSync(rows, t) ==
    /\ \A i \in DOMAIN rows : rows[i].table_name = t => rows[i].created_at < syncs
    /\ prev.valid =>
          /\ \A i \in DOMAIN rows : rows[i].table_name = t => rows[i].id <= prev.maxId
          /\ IF t \in DOMAIN prev.meta
             THEN /\ t \in DOMAIN GetAllTableMetadata(rows)
                  /\ GetAllTableMetadata(rows)[t] = prev.meta[t]
             ELSE RowsOfTable(rows, t) = <<>>

\* C24: sync_schema is not atomic across entities.  When the CREATE TABLE
\* or the metadata write of the k-th entity fails, the tables and metadata
\* rows of entities 1..k-1 are committed and stay, the metadata rows of the
\* k-th entity's table are as they were before the sync, no version row is
\* appended for this sync and seed_data is not called.
C24_FailedSyncKeepsEarlierEntities ==
    [][ SyncFailsAtEntity =>
          /\ tables' = tables /\ metaRows' = metaRows /\ metaNextId' = metaNextId
          /\ \A e \in 1..(idx - 1) :
                /\ \E t \in tables' : t.name = TableNameSql(registry[e])
                /\ RecordedInThisSync(metaRows', registry[e], syncs)
          /\ AsBeforeTheSync(metaRows', registry[idx].table_name)
          /\ versionRows' = versionRows
          /\ \A v \in DOMAIN versionRows' : versionRows'[v].applied_at < syncs
          /\ lastSync' \notin {"returned", "NotImplementedError"}
      ]_vars

\* A second sync failed at the metadata of its second entity, whose table
\* had metadata rows: they are the rows of the first sync, and the rows of
\* the first entity are of the second.
C24_Witness_SecondEntityFailsAfterFirstRecorded ==
    /\ pc = "idle"
    /\ lastSync = "AttributeError"
    /\ prog = MistypedDecls
    /\ syncs = 2
    /\ Len(versionRows) = 1
    /\ \E i \in DOMAIN metaRows :
          metaRows[i].table_name = "books" /\ metaRows[i].created_at = 1
    /\ \E i \in DOMAIN metaRows :
          metaRows[i].table_name = "authors" /\ metaRows[i].created_at = 2

\* ---- a sync over tables that exist ----

DeclaredColumns(cls) == [i \in DOMAIN cls.fields |-> cls.fields[i].name]

\* The names of the columns a table was created with, as written in its
\* CREATE TABLE statement.
PhysicalColumns(t) == { t.columns[i].name : i \in DOMAIN t.columns }

StaleTables == DOMAIN GetAllTableMetadata(metaRows) \ RegisteredTables

\* C27: sync deletes metadata rows only for the table names of the classes
\* in the registry.  Every step leaves every metadata row of a table that no
\* registered class is on as it is, so that get_all_table_metadata returns
\* for that table what it returned before and reverse generation writes a
\* class for it.
C27_StaleMetadataKept ==
    [][ /\ \A i \in DOMAIN metaRows :
              metaRows[i].table_name \notin RegisteredTables =>
                  \E j \in DOMAIN metaRows' : metaRows'[j] = metaRows[i]
        /\ \A t \in StaleTables :
              /\ t \in DOMAIN GetAllTableMetadata(metaRows')
              /\ GetAllTableMetadata(metaRows')[t] = GetAllTableMetadata(metaRows)[t]
              /\ LET classes == GeneratedModule(GetAllTableMetadata(metaRows')).classes
                 IN  \E c \in DOMAIN classes : classes[c].table = t
      ]_vars

\* A process whose classes are both on authors has synced a file that an
\* earlier process, with Book on books, had synced: the rows of books are
\* those of the first sync.
C27_Witness_BooksRowsOutliveBook ==
    /\ SyncedAs(SharedTableDecls)
    /\ syncs = 2
    /\ "books" \in StaleTables
    /\ \A i \in DOMAIN metaRows :
          metaRows[i].table_name = "books" => metaRows[i].created_at = 1
    /\ \E i \in DOMAIN metaRows :
          metaRows[i].table_name = "authors" /\ metaRows[i].created_at = 2

\* ===================================================================
\* SAVING AND CASCADING: Entity.add_child, Entity.insert with children
\* pending, Entity.save, and a commit that fails
\* ===================================================================

\* The children one instance has pending, over all its relationship names.
MaxPending == 2

\* The names a caller passes to add_child: the back-populate attribute of
\* Author, and the attribute Book.author, which is no Relationship.
RelationshipNames == {"books", "author"}

\* self._pending_relationships after add_child(name, child): a dictionary
\* in insertion order, name -> the list of children (positions in objs).
AddPending(p, name, child) ==
    IF \E k \in DOMAIN p : p[k].name = name
    THEN [k \in DOMAIN p |->
             IF p[k].name = name THEN [p[k] EXCEPT !.children = Append(@, child)] ELSE p[k]]
    ELSE Append(p, [name |-> name, children |-> <<child>>])

PendingCount(p) == Len(Flatten([k \in DOMAIN p |-> p[k].children]))

\* A call of insert or save as it proceeds: the instances, the tables, the
\* number of uuid4 calls, the exception raised (""), the connections opened
\* and the statements executed so far; fault chooses the connection whose
\* commit fails (0: none).
Call(fault) ==
    [objs |-> objs, rows |-> tableRows, seq |-> rowSeq, uuids |-> uuids, err |-> "",
     opened |-> 0, statements |-> <<>>, fault |-> fault]

\* Entity.insert up to its cascade part: the statement is built (a string
\* key that is None is generated), and on one connection the INSERT is
\* executed, self.id takes cur.lastrowid for an integer key, and the
\* connection commits.  When the INSERT or the commit raises, get_connection
\* rolls back; the instance keeps what was assigned to it.
InsertOwnRow(st, i) ==
    LET o == WithGeneratedKeys(st.objs[i], st.uuids)
        cls == EntityClass(o.cls)
        r == ExecuteInsert(st.rows, st.seq, cls, InsertColumns(o))
        n == st.opened + 1
        keyed == IF TakesRowId(cls) THEN [o EXCEPT !.attrs["id"] = PyInt(r.lastrowid)] ELSE o
        begun == [st EXCEPT !.uuids = @ + Cardinality(GeneratedKeys(st.objs[i])),
                            !.opened = n,
                            !.statements = Append(@, "INSERT")]
    IN  IF r.err # "" THEN [begun EXCEPT !.objs[i] = o, !.err = r.err]
        ELSE IF st.fault = n THEN [begun EXCEPT !.objs[i] = keyed, !.err = "OperationalError"]
        ELSE [begun EXCEPT !.objs[i] = keyed, !.rows = r.rows, !.seq = r.seq]

\* setattr(child, relationship.foreign_key_attr_name, self.id): an attribute
\* that is no field of the child is no column of its INSERT.
Unlinked(child, attr, id) == child
Link(child, attr, id) ==
    [child EXCEPT !.attrs = [f \in DOMAIN @ |-> IF f = attr THEN id ELSE @[f]]]

RECURSIVE InsertCall(_, _), CascadePending(_, _, _), CascadeChildren(_, _, _, _, _)
\* Entity.insert(cascade=True) of the i-th instance.
InsertCall(st, i) ==
    LET own == InsertOwnRow(st, i) IN
    IF own.err # "" THEN own ELSE CascadePending(own, i, 1)

\* The loop over self._pending_relationships.items(), from entry g on:
\* getattr(type(self), name, None) must be a Relationship.
CascadePending(st, i, g) ==
    IF g > Len(st.objs[i].pending) THEN st
    ELSE LET entry == st.objs[i].pending[g]
             found == { a \in accessors :
                          /\ a.on = st.objs[i].cls
                          /\ a.name = entry.name
                          /\ a.kind = "Relationship" }
         IN  IF found = {} THEN [st EXCEPT !.err = "ValueError"]
             ELSE LET done == CascadeChildren(st, i, (CHOOSE a \in found : TRUE).attr,
                                              entry.children, 1)
                  IN  IF done.err # "" THEN done ELSE CascadePending(done, i, g + 1)

\* The loop over the children of one entry, from child k on.
CascadeChildren(st, i, attr, children, k) ==
    IF k > Len(children) THEN st
    ELSE LET c == children[k]
             linked == [st EXCEPT !.objs[c] = Link(@, attr, st.objs[i].attrs["id"])]
             done == InsertCall(linked, c)
         IN  IF done.err # "" THEN done ELSE CascadeChildren(done, i, attr, children, k + 1)

\* Entity.add_child(name, child) on the i-th instance.  The instances of the
\* model form no cycle: the child is a later instance than its parent.
AddChild ==
    \E i \in DOMAIN objs, c \in DOMAIN objs, name \in RelationshipNames :
        /\ i < c
        /\ PendingCount(objs[i].pending) < MaxPending
        /\ objs' = [objs EXCEPT ![i].pending = AddPending(@, name, c)]
        /\ lastOp' = Operation("add_child", <<i, c>>, "returned", 0, <<>>, FALSE, <<>>)
        /\ UNCHANGED <<tableRows, rowSeq, uuids>>
        /\ UNCHANGED notRows

\* What a finished call leaves.
Returns(op, i, r) ==
    /\ objs' = r.objs
    /\ tableRows' = r.rows
    /\ rowSeq' = r.seq
    /\ uuids' = r.uuids
    /\ lastOp' = Operation(op, <<i>>, IF r.err # "" THEN r.err ELSE "returned",
                           r.opened, r.statements, r.err # "", <<>>)

Faults == 0..(MaxPending + 1)

\* Entity.insert() of the i-th instance, its children included.
InsertCascade ==
    \E i \in DOMAIN objs, fault \in Faults :
        LET r == InsertCall(Call(fault), i) IN
        /\ Inserted(rowSeq) < MaxRows
        /\ Inserted(r.seq) <= MaxRows
        /\ fault <= r.opened
        /\ Returns("insert", i, r)
        /\ UNCHANGED notRows

\* Entity.save, its test: an integer key that is None or 0, a key of
\* another type that is None, or no key field at all.
IsNewAlways(o) == TRUE
IsNew(o) ==
    LET pk == PkField(EntityClass(o.cls)) IN
    IF pk = <<>> THEN TRUE
    ELSE IF pk[1].py_type = "int"
    THEN o.attrs["id"] = PyNone \/ o.attrs["id"] = PyInt(0)
    ELSE o.attrs["id"] = PyNone

\* Entity.update() within a call: ValueError without an id, else one
\* connection, the UPDATE and the commit.
UpdateCall(st, i) ==
    LET o == st.objs[i]
        r == ExecuteUpdate(st.rows, EntityClass(o.cls), UpdateColumns(o), o.attrs["id"])
        begun == [st EXCEPT !.opened = @ + 1, !.statements = Append(@, "UPDATE")]
    IN  IF LacksId(o) THEN [st EXCEPT !.err = "ValueError"]
        ELSE IF r.err # "" THEN [begun EXCEPT !.err = r.err]
        ELSE IF st.fault = 1 THEN [begun EXCEPT !.err = "OperationalError"]
        ELSE [begun EXCEPT !.rows = r.rows]

\* Entity.save() of the i-th instance.
Save ==
    \E i \in DOMAIN objs, fault \in Faults :
        LET r == IF IsNew(objs[i]) THEN InsertCall(Call(fault), i)
                 ELSE UpdateCall(Call(fault), i)
        IN  /\ Inserted(r.seq) <= MaxRows
            /\ fault <= r.opened
            /\ Returns("save", i, r)
            /\ UNCHANGED notRows

CascadeNext ==
    \/ AddChild
    \/ InsertCascade
    \/ Save

\* The process of RowsInit with two instances of different classes.
CascadeInit ==
    /\ prog = RowDecls
    /\ registry = ResolveAll(BindContext(Register(<<>>, RowDecls))).registry
    /\ ctx = "subclass"
    /\ pc = "idle"
    /\ idx = 0
    /\ tables = { CreateTableSql(registry[e]) : e \in DOMAIN registry }
    /\ metaExists = FALSE
    /\ metaRows = <<>>
    /\ metaNextId = 1
    /\ versionRows = <<>>
    /\ syncs = 0
    /\ syncsThrough = 0
    /\ prev = NoSnapshot
    /\ lastSync = "none"
    /\ accessors = AccessorsAfter({}, Register(<<>>, RowDecls),
                                  ResolveCalls(Register(<<>>, RowDecls), 1, 1))
    /\ resolveLog = <<ResolveCalls(Register(<<>>, RowDecls), 1, 1)>>
    /\ objs \in { p \in InstancePairs :
                    /\ p[1].cls # p[2].cls
                    /\ \A k \in DOMAIN p : p[k].attrs["id"] # PyText(-1) }
    /\ NoRows
    /\ ConnIdle
    /\ ReadIdle
    /\ RenderIdle
    /\ FWStart
    /\ HashIdle

SpecCascade == CascadeInit /\ [][CascadeNext]_vars

\* The instance the last call was made on, before and after it.
Target == lastOp'.args[1]

\* The call's own INSERT or its commit raised: the first connection failed.
OwnInsertFailed ==
    /\ lastOp'.op = "insert"
    /\ lastOp'.connections = 1
    /\ lastOp'.outcome \in {"IntegrityError", "OperationalError"}

StringKeyed(o) ==
    LET pk == PkField(EntityClass(o.cls)) IN pk # <<>> /\ pk[1].py_type = "str"

\* C28: Entity.insert assigns the primary key before the row is durably
\* stored.  When its INSERT or its commit fails no row is stored, a
\* string-keyed instance keeps the identifier generated for it, and an
\* integer-keyed instance whose commit failed keeps the row id; and save()
\* on an instance that holds a key takes the update path: it executes no
\* INSERT and adds no row.
C28_KeyAssignedBeforeRowIsStored ==
    [][ /\ OwnInsertFailed =>
              /\ tableRows' = tableRows
              /\ StringKeyed(objs[Target]) =>
                    /\ objs'[Target].attrs["id"] # PyNone
                    /\ objs[Target].attrs["id"] = PyNone =>
                          objs'[Target].attrs["id"] = Uuid4(uuids + 1)
                    /\ ~IsNew(objs'[Target])
              /\ (~StringKeyed(objs[Target]) /\ lastOp'.outcome = "OperationalError") =>
                    /\ objs'[Target].attrs["id"] = PyInt(NextRowid(rowSeq, EntityClass(objs[Target].cls).table_name))
                    /\ ~IsNew(objs'[Target])
        /\ (lastOp'.op = "save" /\ ~IsNew(objs[Target])) =>
              /\ lastOp'.statements \in {<<>>, <<"UPDATE">>}
              /\ { <<r.table, r.rowid>> : r \in tableRows' } = { <<r.table, r.rowid>> : r \in tableRows }
              /\ RowsOf(tableRows, objs[Target]) = {} => tableRows' = tableRows
              /\ rowSeq' = rowSeq
      ]_vars

\* save() has returned from its update path on a Tag whose identifier was
\* generated by an insert that failed: no table has a row.
C28_Witness_SaveAfterFailedInsert ==
    /\ lastOp.op = "save"
    /\ lastOp.outcome = "returned"
    /\ lastOp.statements = <<"UPDATE">>
    /\ objs[lastOp.args[1]].cls = "Tag"
    /\ objs[lastOp.args[1]].attrs["id"] = Uuid4(1)
    /\ tableRows = {}

\* The rows a step stored.
NewRows == tableRows' \ tableRows

\* The INSERTs of the call that were committed: every connection but the
\* one that raised.
Committed ==
    IF lastOp'.outcome \in {"IntegrityError", "OperationalError"}
    THEN lastOp'.connections - 1 ELSE lastOp'.connections

\* C29: cascade insert is sequential and not atomic.  Each INSERT has its
\* own connection; once a child's connection is opened the parent's row is
\* committed and stays; every child row stored carries the parent's id in
\* its foreign-key column; when a child's insert fails, or a pending name is
\* no relationship, the parent and the children inserted before stay
\* committed; and insert leaves the pending children as they were.
C29_CascadeSequentialNotAtomic ==
    [][ (lastOp'.op = "insert" /\ objs[Target].pending # <<>>) =>
          LET parent == objs'[Target]
              own == RowsOf(NewRows, parent)
          IN  /\ lastOp'.connections = Len(lastOp'.statements)
              /\ Cardinality(NewRows) = Committed
              /\ tableRows \subseteq tableRows'
              /\ (lastOp'.connections >= 2 \/ lastOp'.outcome = "ValueError") =>
                    Cardinality(own) = 1
              /\ \A r \in NewRows \ own :
                    \E a \in accessors :
                        /\ a.on = parent.cls /\ a.kind = "Relationship"
                        /\ a.attr \in DOMAIN r.cols => r.cols[a.attr] = parent.attrs["id"]
              /\ \A k \in DOMAIN objs : objs'[k].pending = objs[k].pending
      ]_vars

\* An Author with two children pending was inserted: its row and the row of
\* the first child are committed, the insert of the second child raised.
C29_Witness_SecondChildFailed ==
    /\ lastOp.op = "insert"
    /\ lastOp.failed
    /\ lastOp.connections = 3
    /\ objs[lastOp.args[1]].cls = "Author"
    /\ PendingCount(objs[lastOp.args[1]].pending) = 2
    /\ Cardinality(tableRows) = 2
    /\ \E r \in tableRows : r.table = "authors"

\* ===================================================================
\* SYNCHRONISATION ON ITS CONNECTIONS: sync_schema statement by statement,
\* on the connection of its own block and on the connection each
\* Entity.sync_schema opens inside it
\* ===================================================================

notSyncConn == <<fwVars, hashVars, rowVars, classVars, readVars, renderVars>>

\* The statements run on the connection whose block is innermost.
Logged(events) == [conns EXCEPT ![scopes[Len(scopes)]].log = @ \o events]

\* What record_entity_metadata leaves on its connection after the DELETE
\* and the INSERTs: it commits.
AfterRecordingLeftOpen(log) == log
AfterRecording(log) == Append(log, "commit")

\* The connection has executed a statement that writes and has neither
\* committed nor rolled back since: it holds the write lock.
HoldsUncommittedWrite(c) ==
    \E k \in DOMAIN c.log :
        /\ c.log[k] \in {"write", "ddl"}
        /\ \A j \in (k + 1)..Len(c.log) : c.log[j] \notin {"commit", "rollback"}

\* sync_schema is called: get_connection connects.
SyncOpens ==
    /\ ctx \in {"base", "subclass"}
    /\ pc = "idle"
    /\ scopes = <<>>
    /\ syncs < MaxSyncs
    /\ Len(conns) < MaxConnections
    /\ syncs' = syncs + 1
    /\ pc' = "ensure"
    /\ conns' = Append(conns, NewConnection(0, Len(opOutcome) + 1))
    /\ scopes' = <<Len(conns) + 1>>
    /\ opOutcome' = Append(opOutcome, "running")
    /\ UNCHANGED <<prog, registry, ctx, idx, database, syncsThrough, prev, lastSync>>
    /\ UNCHANGED notSyncConn

\* SchemaMetadata.ensure_metadata_tables(conn): two CREATE TABLE IF NOT
\* EXISTS and a commit.
EnsureMetadataTables ==
    /\ pc = "ensure"
    /\ Len(scopes) = 1 /\ Top.phase = "body"
    /\ metaExists' = TRUE
    /\ conns' = Logged(<<"ddl", "ddl", "commit">>)
    /\ idx' = 1
    /\ pc' = IF registry = <<>> THEN "version" ELSE "ddl"
    /\ syncsThrough' = IF registry = <<>> THEN syncsThrough + 1 ELSE syncsThrough
    /\ UNCHANGED <<prog, registry, ctx, tables, metaRows, metaNextId, versionRows,
                   syncs, prev, lastSync, scopes, opOutcome>>
    /\ UNCHANGED notSyncConn

\* cls.sync_schema() up to its get_connection: the statement is built, which
\* raises for a key without py_type, and a second connection is opened.
EntityOpens ==
    /\ pc = "ddl"
    /\ Len(scopes) = 1 /\ Top.phase = "body"
    /\ IF EntitySyncSchemaResult(tables, registry[idx]).err = "AttributeError"
       THEN /\ conns' = RaiseInto(conns, scopes[1], "AttributeError")
            /\ UNCHANGED <<scopes, pc>>
       ELSE /\ Len(conns) < MaxConnections
            /\ conns' = Append(conns, NewConnection(scopes[1], conns[scopes[1]].op))
            /\ scopes' = Append(scopes, Len(conns) + 1)
            /\ pc' = "create"
    /\ UNCHANGED <<prog, registry, ctx, idx, database, syncs, syncsThrough, prev,
                   lastSync, opOutcome>>
    /\ UNCHANGED notSyncConn

\* The block of Entity.sync_schema: CREATE TABLE IF NOT EXISTS and commit on
\* the second connection.
EntityCreateTable ==
    /\ pc = "create"
    /\ Len(scopes) = 2 /\ Top.phase = "body"
    /\ LET r == ExecuteCreateTable(tables, CreateTableSql(registry[idx])) IN
          IF r.err # ""
          THEN /\ conns' = RaiseInto(conns, scopes[2], r.err)
               /\ UNCHANGED <<tables, pc>>
          ELSE /\ tables' = r.tables
               /\ conns' = [Logged(<<"ddl", "commit">>) EXCEPT ![scopes[2]].phase = "finally"]
               /\ pc' = "meta"
    /\ UNCHANGED <<prog, registry, ctx, idx, metaExists, metaRows, metaNextId,
                   versionRows, syncs, syncsThrough, prev, lastSync, scopes, opOutcome>>
    /\ UNCHANGED notSyncConn

\* record_entity_metadata(conn, cls) up to its commit: the DELETE and the
\* INSERTs on the connection of sync_schema.
RecordWrites ==
    /\ pc = "meta"
    /\ Len(scopes) = 1 /\ Top.phase = "body"
    /\ LET r == RecordEntityMetadataResult(metaRows, metaNextId, registry[idx], syncs) IN
          IF r.err # ""
          THEN /\ conns' = RaiseInto(Logged(<<"write">>), scopes[1], r.err)
               /\ UNCHANGED pc
          ELSE /\ conns' = Logged(<<"write">>)
               /\ pc' = "commit"
    /\ UNCHANGED <<prog, registry, ctx, idx, database, syncs, syncsThrough, prev,
                   lastSync, scopes, opOutcome>>
    /\ UNCHANGED notSyncConn

\* record_entity_metadata, its commit: the rows are in the database, and the
\* loop goes on.
RecordCommits ==
    /\ pc = "commit"
    /\ LET r == RecordEntityMetadataResult(metaRows, metaNextId, registry[idx], syncs) IN
          /\ metaRows' = r.rows
          /\ metaNextId' = r.nextId
    /\ conns' = [conns EXCEPT ![scopes[1]].log = AfterRecording(@)]
    /\ IF idx < Len(registry)
       THEN idx' = idx + 1 /\ pc' = "ddl" /\ UNCHANGED syncsThrough
       ELSE pc' = "version" /\ syncsThrough' = syncsThrough + 1 /\ UNCHANGED idx
    /\ UNCHANGED <<prog, registry, ctx, tables, metaExists, versionRows, syncs,
                   prev, lastSync, scopes, opOutcome>>
    /\ UNCHANGED notSyncConn

\* record_schema_version(conn, hash, count): INSERT and commit; the block of
\* sync_schema ends.
VersionRecorded ==
    /\ pc = "version"
    /\ Len(scopes) = 1 /\ Top.phase = "body"
    /\ versionRows' = AppendVersion(versionRows, CalculateEntitiesHash(registry),
                                    syncs, Len(registry))
    /\ conns' = [Logged(<<"write", "commit">>) EXCEPT ![scopes[1]].phase = "finally"]
    /\ pc' = "seed"
    /\ UNCHANGED <<prog, registry, ctx, idx, tables, metaExists, metaRows, metaNextId,
                   syncs, syncsThrough, prev, lastSync, scopes, opOutcome>>
    /\ UNCHANGED notSyncConn

\* await self.seed_data(), the connection of sync_schema being closed.
SeedAfterClose ==
    /\ scopes = <<>>
    /\ SeedData

\* An exception has left the block of sync_schema and its connection is
\* closed: the call raises it.
SyncCallRaises ==
    /\ pc \notin {"idle", "seed"}
    /\ scopes = <<>>
    /\ opOutcome[Len(opOutcome)] = "raised"
    /\ \E i \in DOMAIN conns :
          /\ conns[i].parent = 0 /\ conns[i].op = Len(opOutcome)
          /\ SyncRaised(conns[i].exc)
    /\ UNCHANGED <<prog, registry, ctx, idx, database, syncs, syncsThrough>>
    /\ UNCHANGED notSync

SyncConnNext ==
    \/ ConstructContext
    \/ SyncOpens
    \/ Pragma
    \/ EnsureMetadataTables
    \/ EntityOpens
    \/ EntityCreateTable
    \/ RecordWrites
    \/ RecordCommits
    \/ VersionRecorded
    \/ Rollback
    \/ Close
    \/ SeedAfterClose
    \/ SyncCallRaises

SpecSyncConnections == SyncInit /\ [][SyncConnNext]_vars

OpenConnections == { i \in DOMAIN conns : conns[i].phase # "exited" }

\* C25: during sync_schema at most two connections are open at any time,
\* the connection of sync_schema and one of an Entity.sync_schema, and
\* while the second is open, its CREATE TABLE included, the first holds no
\* uncommitted write.
C25_TwoConnectionsNoPendingWrite ==
    /\ Cardinality(OpenConnections) <= 2
    /\ OpenConnections = { scopes[k] : k \in DOMAIN scopes }
    /\ Len(scopes) = 2 => ~HoldsUncommittedWrite(conns[scopes[1]])

\* The second entity's connection has run its CREATE TABLE while the
\* connection of sync_schema, which has written and committed the metadata
\* of the first entity, is open.
C25_Witness_SecondEntityCreatesTable ==
    /\ Len(scopes) = 2
    /\ idx = 2
    /\ pc = "meta"
    /\ Top.log = <<"open", "pragma", "pragma", "ddl", "commit">>
    /\ Count(conns[scopes[1]].log, "write") = 1
    /\ \E t \in tables : t.name = "books"

\* ===================================================================
\* RENDERING: FileWriter builds its lines with markers, strips them for the
\* file and scans them for the structural map
\* ===================================================================

\* Every marker of FileWriter.MARKERS, and SEPARATOR, is a string of this
\* many characters in the source.
MarkerLen == 4
\* _clean_lines cuts this many characters from the end of every line.
StripWidth == 4
\* The builder calls of one kind made on one FileWriter, and its write_file
\* calls.
MaxLines == 2
MaxWrites == 2
\* The classes added to the FileWriter, each at most once.
ClassNames == <<"Author">>

\* The code of a line: what the caller passed, or what the builder wrote.
Code(kind, name, n) == [kind |-> kind, name |-> name, n |-> n]
\* A line as the builders keep it: its code and, after the separator and
\* "#", the marker names in braces.  No token: the line has no separator.
Marked(code, tokens) == [code |-> code, tokens |-> tokens]
Blank == Marked(Code("blank", "", 0), <<>>)

\* ClassWriter.__init__ as called by FileWriter.add_class.
NewClassWriter(name) ==
    [name |-> name, decorator |-> <<>>, properties |-> <<>>, methods |-> <<>>]

\* FileWriter._add_markers_to_section: the first item carries start, the
\* last one stop unless it is the first, the others the section marker only.
AddMarkersToSection(items, marker_type) ==
    [i \in DOMAIN items |->
        Marked(items[i],
               IF i = 1 THEN <<marker_type, "start">>
               ELSE IF i = Len(items) THEN <<marker_type, "stop">>
               ELSE <<marker_type>>)]

\* What _mark_boundaries does to one list: "{start}" is appended to the
\* first line and "{stop}" to the last, whatever they carry already.
MarkEnds(lines) ==
    IF lines = <<>> THEN lines
    ELSE LET a == [lines EXCEPT ![1].tokens = Append(@, "start")]
         IN  [a EXCEPT ![Len(a)].tokens = Append(@, "stop")]

\* ClassWriter._mark_boundaries: it changes the ClassWriter's own lists.
MarkBoundaries(cw) ==
    [cw EXCEPT !.properties = MarkEnds(@), !.methods = MarkEnds(@)]

\* ClassWriter._build_lines: the ClassWriter it leaves and the lines it
\* returns.
ClassBuildLines(cw0) ==
    LET cw == MarkBoundaries(cw0)
        body ==
            cw.decorator
            \o <<Marked(Code("class", cw.name, 0), <<"class", "start">>)>>
            \o (IF cw.properties # <<>> THEN cw.properties \o <<Blank>> ELSE <<>>)
            \o cw.methods
            \o (IF cw.properties = <<>> /\ cw.methods = <<>>
                THEN <<Marked(Code("pass", "", 0), <<>>)>> ELSE <<>>)
    IN  [cw    |-> cw,
         lines |-> [body EXCEPT ![Len(body)].tokens = @ \o <<"class", "stop">>]]

\* The characters a marker part is formatted to: "#" and MarkerLen
\* characters per marker name.
MarkerChars(tokens) ==
    IF tokens = <<>> THEN <<>>
    ELSE <<[of |-> "#", k |-> 1]>>
         \o Flatten([i \in DOMAIN tokens |->
                        [k \in 1..MarkerLen |-> [of |-> tokens[i], k |-> k]]])

\* The classes built in order: the ClassWriters left and the lines, a blank
\* line after every class.
RECURSIVE BuildClasses(_)
BuildClasses(cws) ==
    IF cws = <<>> THEN [classes |-> <<>>, lines |-> <<>>]
    ELSE LET b    == ClassBuildLines(Head(cws))
             rest == BuildClasses(Tail(cws))
         IN  [classes |-> <<b.cw>> \o rest.classes,
              lines   |-> b.lines \o <<Blank>> \o rest.lines]

\* FileWriter._build_lines: the FileWriter it leaves and the formatted lines.
\* A formatted line is its code padded to the longest line plus four,
\* followed by the formatted marker part: at least four blanks stand between
\* the code and the marker part, or end the line.
BuildLines(w) ==
    LET built == BuildClasses(w.classes)
        lines ==
            (IF w.header_comments # <<>>
             THEN AddMarkersToSection(w.header_comments, "header") \o <<Blank>>
             ELSE <<>>)
            \o (IF w.imports # <<>>
                THEN AddMarkersToSection(w.imports, "import") \o <<Blank>>
                ELSE <<>>)
            \o built.lines
    IN  [fw    |-> [w EXCEPT !.classes = built.classes],
         lines |-> [i \in DOMAIN lines |->
                       [code |-> lines[i].code,
                        tail |-> MarkerChars(lines[i].tokens)]]]

\* FileWriter._clean_lines: line[:-4].rstrip().  The cut takes the end of
\* the marker part, and the padding when the marker part is shorter; what is
\* left of the marker part stays behind the padding.
CleanLines(lines) ==
    [i \in DOMAIN lines |->
        [code |-> lines[i].code,
         tail |-> IF Len(lines[i].tail) > StripWidth
                  THEN SubSeq(lines[i].tail, 1, Len(lines[i].tail) - StripWidth)
                  ELSE <<>>]]

\* line.rstrip().endswith(markers[marker_name] + markers[bound])
EndsWithTag(line, marker_name, bound) ==
    LET tag == Flatten(<<[k \in 1..MarkerLen |-> [of |-> marker_name, k |-> k]],
                         [k \in 1..MarkerLen |-> [of |-> bound, k |-> k]]>>)
        n   == Len(line.tail)
    IN  /\ n >= Len(tag)
        /\ SubSeq(line.tail, n - Len(tag) + 1, n) = tag

\* The loop of _get_boundaries from line i (counted from 1), start_index
\* being the open block's start (-1: none) and block_name its name.
RECURSIVE ScanBoundaries(_, _, _, _, _, _)
ScanBoundaries(lines, marker_name, offset, i, start_index, block_name) ==
    IF i > Len(lines) THEN <<>>
    ELSE IF EndsWithTag(lines[i], marker_name, "start")
    THEN ScanBoundaries(lines, marker_name, offset, i + 1, i - 1,
                        IF marker_name = "class" /\ lines[i].code.kind = "class"
                        THEN lines[i].code.name ELSE marker_name)
    ELSE IF start_index # -1 /\ EndsWithTag(lines[i], marker_name, "stop")
    THEN <<[start |-> start_index + offset, stop |-> i - 1 + offset,
            name |-> block_name]>>
         \o ScanBoundaries(lines, marker_name, offset, i + 1, -1, "")
    ELSE ScanBoundaries(lines, marker_name, offset, i + 1, start_index, block_name)

\* FileWriter._get_boundaries
GetBoundaries(lines, marker_name, offset) ==
    ScanBoundaries(lines, marker_name, offset, 1, -1, "")

\* FileWriter._build_meta_data.  A key the code leaves out is the empty
\* list here.
BuildMetaData(lines) ==
    LET classes_found == GetBoundaries(lines, "class", 0) IN
    [headers |-> GetBoundaries(lines, "header", 0),
     imports |-> GetBoundaries(lines, "import", 0),
     classes |->
        [c \in DOMAIN classes_found |->
            LET class_lines == SubSeq(lines, classes_found[c].start + 1,
                                      classes_found[c].stop + 1)
            IN  [class      |-> classes_found[c],
                 properties |-> GetBoundaries(class_lines, "property",
                                              classes_found[c].start),
                 methods    |-> GetBoundaries(class_lines, "method",
                                              classes_found[c].start)]]]

\* ---- the calls on a FileWriter ----

Writable == Len(render) < MaxWrites

\* FileWriter.add_header_comment
AddHeaderComment ==
    /\ Writable
    /\ Len(fw.header_comments) < MaxLines
    /\ fw' = [fw EXCEPT !.header_comments =
                  Append(@, Code("comment", "", Len(@) + 1))]
    /\ UNCHANGED <<render, notRender>>

\* FileWriter.add_import
AddImport ==
    /\ Writable
    /\ Len(fw.imports) < MaxLines
    /\ fw' = [fw EXCEPT !.imports = Append(@, Code("import", "", Len(@) + 1))]
    /\ UNCHANGED <<render, notRender>>

\* FileWriter.add_class
AddClass ==
    /\ Writable
    /\ Len(fw.classes) < Len(ClassNames)
    /\ fw' = [fw EXCEPT !.classes =
                  Append(@, NewClassWriter(ClassNames[Len(@) + 1]))]
    /\ UNCHANGED <<render, notRender>>

\* ClassWriter.set_decorator
SetDecorator ==
    /\ Writable
    /\ \E c \in DOMAIN fw.classes :
          /\ fw.classes[c].decorator = <<>>
          /\ fw' = [fw EXCEPT !.classes[c].decorator =
                        <<Marked(Code("decorator", "", 1),
                                 <<"decorator", "start", "stop">>)>>]
    /\ UNCHANGED <<render, notRender>>

\* ClassWriter.add_property
AddProperty ==
    /\ Writable
    /\ \E c \in DOMAIN fw.classes :
          /\ Len(fw.classes[c].properties) < MaxLines
          /\ fw' = [fw EXCEPT !.classes[c].properties =
                        Append(@, Marked(Code("property", "", Len(@) + 1),
                                         <<"property">>))]
    /\ UNCHANGED <<render, notRender>>

\* ClassWriter.add_method
AddMethod ==
    /\ Writable
    /\ \E c \in DOMAIN fw.classes :
          /\ Len(fw.classes[c].methods) < MaxLines
          /\ fw' = [fw EXCEPT !.classes[c].methods =
                        Append(@, Marked(Code("method", "", Len(@) + 1),
                                         <<"method">>))]
    /\ UNCHANGED <<render, notRender>>

\* FileWriter.write_file(force=True): generate_file builds the lines and
\* strips them, the text is written, the lines are built again and
\* scanned, and the map is saved.
RenderFile ==
    /\ Writable
    /\ LET first  == BuildLines(fw)
           second == BuildLines(first.fw)
       IN  /\ fw' = second.fw
           /\ render' = Append(render,
                  [content  |-> fw,
                   marked   |-> first.lines,
                   written  |-> CleanLines(first.lines),
                   remarked |-> second.lines,
                   meta     |-> BuildMetaData(second.lines)])
    /\ UNCHANGED notRender

RenderInit ==
    /\ FWStart
    /\ HashIdle
    /\ prog = EmptyDecls
    /\ registry = <<>>
    /\ ctx = "none"
    /\ pc = "idle"
    /\ idx = 0
    /\ FreshDatabase
    /\ syncs = 0
    /\ syncsThrough = 0
    /\ prev = NoSnapshot
    /\ lastSync = "none"
    /\ ExtIdle

RenderNext ==
    \/ AddHeaderComment
    \/ AddImport
    \/ AddClass
    \/ SetDecorator
    \/ AddProperty
    \/ AddMethod
    \/ RenderFile

SpecRender == RenderInit /\ [][RenderNext]_vars

\* The blocks of a file as its lines lie: a section from its first to its
\* last line, a class from its class line to its last line, the properties
\* and the methods of a class from their first to their last line.
Block(name, first, last) == [start |-> first, stop |-> last, name |-> name]
Section(name, first, n) == IF n = 0 THEN <<>> ELSE <<Block(name, first, first + n - 1)>>

ClassLength(cw) ==
    Len(cw.decorator) + 1
    + (IF cw.properties # <<>> THEN Len(cw.properties) + 1 ELSE 0)
    + Len(cw.methods)
    + (IF cw.properties = <<>> /\ cw.methods = <<>> THEN 1 ELSE 0)

RECURSIVE ClassBlocks(_, _)
ClassBlocks(cws, at) ==
    IF cws = <<>> THEN <<>>
    ELSE LET cw    == Head(cws)
             head  == at + Len(cw.decorator)
             props == Len(cw.properties)
         IN  <<[class      |-> Block(cw.name, head, at + ClassLength(cw) - 1),
                properties |-> Section("property", head + 1, props),
                methods    |-> Section("method",
                                       head + 1 + (IF props > 0 THEN props + 1 ELSE 0),
                                       Len(cw.methods))]>>
             \o ClassBlocks(Tail(cws), at + ClassLength(cw) + 1)

BlocksPresent(w) ==
    LET h == Len(w.header_comments)
        m == Len(w.imports)
        importsAt == IF h > 0 THEN h + 1 ELSE 0
        classesAt == importsAt + (IF m > 0 THEN m + 1 ELSE 0)
    IN  [headers |-> Section("header", 0, h),
         imports |-> Section("import", importsAt, m),
         classes |-> ClassBlocks(w.classes, classesAt)]

\* C23: for every FileWriter content, in one write_file call the text
\* written has no marker character and is the code of the lines, the marked
\* lines scanned for the structural map are the marked lines that were
\* stripped, and every header, import, class, property and method block of
\* the file is in the map with the line numbers it has in the file.
C23_StrippingAndMapAgree ==
    \A k \in DOMAIN render :
        /\ \A i \in DOMAIN render[k].written : render[k].written[i].tail = <<>>
        /\ render[k].remarked = render[k].marked
        /\ render[k].meta = BlocksPresent(render[k].content)

====
